---- MODULE Spec2Model ----
(***************************************************************************)
(* State-machine model of the BESC trending bot (src/index.js, v9) and of  *)
(* the aggregator of its v10 variant (src/unnamed/part_001).               *)
(*                                                                         *)
(* Numbers.  JavaScript numbers are modelled by integers:                  *)
(*   - timestamps are milliseconds, the clock moves in quanta of half a    *)
(*     cooldown window (15 min; the freshness window of the Risk Cache is  *)
(*     four of them), so both windows are hit exactly;                     *)
(*   - a mean of up to three scores is kept in sixths (ScoreScale);        *)
(*   - hotness is kept in thousandths (HotScale).                          *)
(***************************************************************************)
EXTENDS Integers, Sequences, FiniteSets, TLC

VARIABLES
    now,              \* Date.now(), ms
    cycleNo,          \* number of postTrending calls started so far
    keys,             \* configured oracle API keys (environment, fixed)
    pc,               \* per cycle instance: where postTrending is suspended
    runNo,            \* per cycle instance: which call of postTrending it is
    candidates,       \* per cycle instance: raw.filter(isGoodPool)
    newish,           \* per cycle instance: checkNewPools' filtered list
    idx,              \* per cycle instance: checkNewPools' loop position
    sentAt,           \* per cycle instance: when the pending alert was sent
    feats,            \* per cycle instance: candidates.map(buildFeatures)
    aiMap,            \* per cycle instance: result of getAIScores
    scored,           \* per cycle instance: sorted ranking entries
    top,              \* per cycle instance: scored.slice(0, TRENDING_SIZE)
    summary,          \* per cycle instance: result of getMarketSummary
    thrown,           \* per cycle instance: what the try block threw ("" = nothing)
    history,          \* address -> sequence of [t, v]
    riskCache,        \* sequence of [k, risk, updated] in key insertion order
    lastVolumes,      \* Map address -> volume of last successful cycle
    alertedNewPools,  \* Map address -> last alert timestamp
    lastPinnedId,     \* 0 = null
    errorCount,
    alertLog,         \* observation: alerts delivered, [address, sentAt, doneAt]
    warnLog,          \* observation: failure warnings surfaced
    consensusLog,     \* observation: address -> [risk, at, run] of its last consensus
    obs               \* observation: inputs/results of the last component call

vars == << now, cycleNo, keys, pc, runNo, candidates, newish, idx, sentAt, feats,
           aiMap, scored, top, summary, thrown, history, riskCache, lastVolumes,
           alertedNewPools, lastPinnedId, errorCount, alertLog, warnLog,
           consensusLog, obs >>

-----------------------------------------------------------------------------
(* Configuration defaults (src/index.js:9-43) and literals of the code.    *)

NEW_POOL_MAX_MIN == 10
NEW_POOL_MIN_LIQ_USD == 3000
NEW_POOL_MIN_VOL24_USD == 500
NEW_POOL_MIN_BUYERS == 3
NEW_ALERT_COOLDOWN_MIN == 30
MIN_LIQ_USD == 3000
MIN_VOL24_USD == 500
MIN_BUYS_24H == 2
AI_WEIGHT == 2000
MsPerMin == 60000
RiskTtlMs == 3600000
DisagreeSpread == 20
ReasonBudget == 50
TagCap == 5

(* Capacities scaled down so that overflow happens on small inputs.  The   *)
(* code has 4032, 1000, 500 and 8.                                         *)
HISTORY_MAX_POINTS == 3
RiskCacheMax == 4
RiskCacheKeep == 2
TRENDING_SIZE == 2

(* Bounds of the exploration. *)
StartTicks == 3
MaxTicks == 5
MaxCycles == 2

Quantum == (NEW_ALERT_COOLDOWN_MIN * MsPerMin) \div 2
StartNow == StartTicks * Quantum
MaxNow == StartNow + MaxTicks * Quantum
CooldownMs == NEW_ALERT_COOLDOWN_MIN * MsPerMin
ScoreScale == 2 * 3
HotScale == 10 * 100

Addrs == {"a1", "a2"}
CacheKeys == Addrs \cup {"k1", "k2", "k3", "k4"}
Procs == {1, 2}
Oracles == << "openai", "claude", "groq" >>

-----------------------------------------------------------------------------
(* Generic helpers. *)

Min2(a, b) == IF a <= b THEN a ELSE b
Max2(a, b) == IF a >= b THEN a ELSE b

RECURSIVE SeqSum(_)
SeqSum(s) == IF s = << >> THEN 0 ELSE Head(s) + SeqSum(Tail(s))

SeqMax(s) == CHOOSE x \in { s[i] : i \in 1..Len(s) } :
                \A j \in 1..Len(s) : s[j] <= x
SeqMin(s) == CHOOSE x \in { s[i] : i \in 1..Len(s) } :
                \A j \in 1..Len(s) : s[j] >= x

Range(s) == { s[i] : i \in 1..Len(s) }

RECURSIVE Concat(_)
Concat(ss) == IF ss = << >> THEN << >> ELSE Head(ss) \o Concat(Tail(ss))

(* Map.get / Map.set on a function with a finite domain. *)
MapGet(m, k, dflt) == IF k \in DOMAIN m THEN m[k] ELSE dflt
MapSet(m, k, v) == [ x \in (DOMAIN m) \cup {k} |-> IF x = k THEN v ELSE m[x] ]

-----------------------------------------------------------------------------
(* History Tracker (src/index.js:68-84).                                   *)

updateHistory_shiftNewest(h, address, vol24, t) ==
    LET pushed == Append(h[address], [t |-> t, v |-> vol24])
    IN  [ h EXCEPT ![address] =
            IF Len(pushed) > HISTORY_MAX_POINTS
            THEN SubSeq(pushed, 1, Len(pushed) - 1) ELSE pushed ]

(* history[address].push({t, v}); shift() when longer than the maximum.    *)
updateHistory(h, address, vol24, t) ==
    LET pushed == Append(h[address], [t |-> t, v |-> vol24])
    IN  [ h EXCEPT ![address] =
            IF Len(pushed) > HISTORY_MAX_POINTS THEN Tail(pushed) ELSE pushed ]

(* getHistoryStats without its early return on an empty series: the      *)
(* average of no points is 0 / 0.                                          *)
getHistoryStats_noGuard(h, address) ==
    LET arr == h[address]
        n == Len(arr)
        vs == [ i \in 1..n |-> arr[i].v ]
        total == SeqSum(vs)
        sq == SeqSum([ i \in 1..n |-> vs[i] * vs[i] ])
    IN  [ empty |-> FALSE, avg_num |-> total, avg_den |-> n,
          has_trend |-> n > 1,
          trend_num |-> IF n > 1 THEN vs[n] - vs[1] ELSE 0,
          trend_den |-> IF n > 1 THEN vs[1] ELSE 1,
          has_vola |-> n > 1,
          vola_sq_num |-> IF n > 1 THEN n * sq - total * total ELSE 0,
          vola_sq_den |-> IF n > 1 THEN total * total ELSE 1 ]

(* getHistoryStats, kept as exact fractions:                               *)
(*   avg  = avg_num / avg_den                                              *)
(*   trend = trend_num / trend_den  (recent[last].v - recent[0].v)/recent[0].v *)
(*   (vola/100)^2 = vola_sq_num / vola_sq_den                              *)
(* has_trend / has_vola tell whether the conditional took the computed     *)
(* branch (length > 1) or the literal 0.                                   *)
getHistoryStats(h, address) ==
    LET arr == h[address]
        n == Len(arr)
        vs == [ i \in 1..n |-> arr[i].v ]
        total == SeqSum(vs)
        sq == SeqSum([ i \in 1..n |-> vs[i] * vs[i] ])
        recent == IF n > 12 THEN SubSeq(vs, n - 11, n) ELSE vs
    IN  IF n = 0
        THEN [ empty |-> TRUE, avg_num |-> 0, avg_den |-> 1,
               has_trend |-> FALSE, trend_num |-> 0, trend_den |-> 1,
               has_vola |-> FALSE, vola_sq_num |-> 0, vola_sq_den |-> 1 ]
        ELSE [ empty |-> FALSE, avg_num |-> total, avg_den |-> n,
               has_trend |-> Len(recent) > 1,
               trend_num |-> IF Len(recent) > 1
                             THEN recent[Len(recent)] - recent[1] ELSE 0,
               trend_den |-> IF Len(recent) > 1 THEN recent[1] ELSE 1,
               has_vola |-> n > 1,
               vola_sq_num |-> IF n > 1 THEN n * sq - total * total ELSE 0,
               vola_sq_den |-> IF n > 1 THEN total * total ELSE 1 ]

-----------------------------------------------------------------------------
(* Risk Cache (src/index.js:86-99).  Object keys keep insertion order, so  *)
(* the cache is a sequence of entries; Array.prototype.sort is stable.     *)

RcKeys(rc) == { rc[i].k : i \in 1..Len(rc) }
RcIndex(rc, address) == CHOOSE i \in 1..Len(rc) : rc[i].k = address

(* riskCache[address] = { risk, updated } *)
RcPut(rc, address, risk, t) ==
    LET e == [ k |-> address, risk |-> risk, updated |-> t ]
    IN  IF address \in RcKeys(rc)
        THEN [ rc EXCEPT ![RcIndex(rc, address)] = e ]
        ELSE Append(rc, e)

(* Position of entry i after keys.sort((a, b) => updated[b] - updated[a]). *)
RcRank(rc, i) ==
    Cardinality({ j \in 1..Len(rc) : rc[j].updated > rc[i].updated })
  + Cardinality({ j \in 1..(i - 1) : rc[j].updated = rc[i].updated })

RECURSIVE RcKeep(_, _, _)
RcKeep(rc, i, limit) ==
    IF i > Len(rc) THEN << >>
    ELSE (IF RcRank(rc, i) < limit THEN << rc[i] >> ELSE << >>)
         \o RcKeep(rc, i + 1, limit)

updateRiskCache_noEvict(rc, address, risk, t) == RcPut(rc, address, risk, t)

updateRiskCache(rc, address, risk, t) ==
    LET put == RcPut(rc, address, risk, t)
    IN  IF Len(put) > RiskCacheMax THEN RcKeep(put, 1, RiskCacheKeep) ELSE put

NoRisk == ""

getCachedRisk_inclusive(rc, address, t) ==
    IF address \in RcKeys(rc)
       /\ t - rc[RcIndex(rc, address)].updated <= RiskTtlMs
    THEN rc[RcIndex(rc, address)].risk
    ELSE NoRisk

(* entry && (Date.now() - entry.updated) < 3600000 ? entry.risk : null *)
getCachedRisk(rc, address, t) ==
    IF address \in RcKeys(rc)
       /\ t - rc[RcIndex(rc, address)].updated < RiskTtlMs
    THEN rc[RcIndex(rc, address)].risk
    ELSE NoRisk

-----------------------------------------------------------------------------
(* Pool filters and the Feature Builder (src/index.js:160-208, 336-343).   *)
(* A snapshot is [address, pool_created_at, reserve_in_usd, vol, buys,     *)
(* sells, buyers]; vol is attributes.volume_usd.h24.                       *)

isGoodPool(p, t) ==
    /\ p.reserve_in_usd >= MIN_LIQ_USD
    /\ p.vol >= MIN_VOL24_USD
    /\ p.buys >= MIN_BUYS_24H
    /\ (t - p.pool_created_at) >= 1 * MsPerMin

isNewish_anyAge(p, t) ==
    /\ p.reserve_in_usd >= NEW_POOL_MIN_LIQ_USD
    /\ p.vol >= NEW_POOL_MIN_VOL24_USD
    /\ p.buyers >= NEW_POOL_MIN_BUYERS

(* The filter predicate of checkNewPools. *)
isNewish(p, t) ==
    /\ (t - p.pool_created_at) <= NEW_POOL_MAX_MIN * MsPerMin
    /\ p.reserve_in_usd >= NEW_POOL_MIN_LIQ_USD
    /\ p.vol >= NEW_POOL_MIN_VOL24_USD
    /\ p.buyers >= NEW_POOL_MIN_BUYERS

(* histStats.avg ? ((volNow - histStats.avg) / histStats.avg) * 100 : 0,   *)
(* as the fraction vol_vs_avg_num / vol_vs_avg_den.                        *)
VsAvgNum(hs, volNow) ==
    IF hs.avg_num # 0 THEN 100 * (volNow * hs.avg_den - hs.avg_num) ELSE 0

VsAvgDen(hs) == IF hs.avg_num # 0 THEN hs.avg_num ELSE 1

buildFeatures_noCache(p, lv, h, rc, t) ==
    LET volNow == p.vol
        got == MapGet(lv, p.address, 0)
        volPrev == IF got # 0 THEN got ELSE volNow
        delta == volNow - volPrev
    IN  [ address |-> p.address,
          liq_usd |-> p.reserve_in_usd,
          age_min |-> (t - p.pool_created_at) \div MsPerMin,
          vol24_now |-> volNow,
          vol24_delta_5m |-> delta,
          rate_num |-> IF volPrev > 0 THEN delta ELSE 0,
          rate_den |-> IF volPrev > 0 THEN volPrev ELSE 1,
          buyers24 |-> p.buyers,
          buys24 |-> p.buys,
          sells24 |-> p.sells,
          hist |-> getHistoryStats(h, p.address),
          vol_vs_avg_num |-> VsAvgNum(getHistoryStats(h, p.address), volNow),
          vol_vs_avg_den |-> VsAvgDen(getHistoryStats(h, p.address)),
          risk_level |-> "med" ]

buildFeatures(p, lv, h, rc, t) ==
    LET volNow == p.vol
        got == MapGet(lv, p.address, 0)
        volPrev == IF got # 0 THEN got ELSE volNow
        delta == volNow - volPrev
        cachedRisk == getCachedRisk(rc, p.address, t)
    IN  [ address |-> p.address,
          liq_usd |-> p.reserve_in_usd,
          age_min |-> (t - p.pool_created_at) \div MsPerMin,
          vol24_now |-> volNow,
          vol24_delta_5m |-> delta,
          rate_num |-> IF volPrev > 0 THEN delta ELSE 0,
          rate_den |-> IF volPrev > 0 THEN volPrev ELSE 1,
          buyers24 |-> p.buyers,
          buys24 |-> p.buys,
          sells24 |-> p.sells,
          hist |-> getHistoryStats(h, p.address),
          vol_vs_avg_num |-> VsAvgNum(getHistoryStats(h, p.address), volNow),
          vol_vs_avg_den |-> VsAvgDen(getHistoryStats(h, p.address)),
          risk_level |-> IF cachedRisk # NoRisk THEN cachedRisk ELSE "med" ]

-----------------------------------------------------------------------------
(* Hotness Ranker (src/index.js:362-371), in thousandths.                  *)

(* f.hist_trend > 0.1 with JavaScript division (x/0 is +-Infinity or NaN). *)
TrendAbove(hs) ==
    /\ hs.has_trend
    /\ IF hs.trend_den > 0 THEN 10 * hs.trend_num > hs.trend_den
       ELSE IF hs.trend_den = 0 THEN hs.trend_num > 0
       ELSE 10 * hs.trend_num < hs.trend_den

(* f.hist_vola > 50, i.e. sqrt(variance)/avg > 0.5 *)
VolaAbove(hs) ==
    /\ hs.has_vola
    /\ hs.avg_num > 0
    /\ 4 * hs.vola_sq_num > hs.vola_sq_den

(* The hotness without the risk adjustment. *)
baseHotness_noRisk(f) ==
    LET burstBoost == Max2(0, f.vol24_delta_5m) * 3
        buyerBoost == f.buyers24 * 100
        recencyBonus == IF f.age_min < 60 THEN 1000
                        ELSE IF f.age_min < 360 THEN 500 ELSE 0
        trendBoost100 == IF TrendAbove(f.hist) THEN f.vol24_now * 20 ELSE 0
        volaPenalty100 == IF VolaAbove(f.hist) THEN f.vol24_now * 15 ELSE 0
        sellPenalty100 == IF 10 * (f.buys24 + 1) < 3 * (f.sells24 + 1)
                          THEN f.vol24_now * 30 ELSE 0
    IN  (100 * (f.vol24_now + burstBoost + buyerBoost + recencyBonus)
         + trendBoost100 - volaPenalty100 - sellPenalty100) * 10

baseHotness(f) ==
    LET burstBoost == Max2(0, f.vol24_delta_5m) * 3
        buyerBoost == f.buyers24 * 100
        recencyBonus == IF f.age_min < 60 THEN 1000
                        ELSE IF f.age_min < 360 THEN 500 ELSE 0
        trendBoost100 == IF TrendAbove(f.hist) THEN f.vol24_now * 20 ELSE 0
        volaPenalty100 == IF VolaAbove(f.hist) THEN f.vol24_now * 15 ELSE 0
        sellPenalty100 == IF 10 * (f.buys24 + 1) < 3 * (f.sells24 + 1)
                          THEN f.vol24_now * 30 ELSE 0
        riskAdjust10 == IF f.risk_level = "low" THEN 12
                        ELSE IF f.risk_level = "high" THEN 7 ELSE 10
    IN  (100 * (f.vol24_now + burstBoost + buyerBoost + recencyBonus)
         + trendBoost100 - volaPenalty100 - sellPenalty100) * riskAdjust10

-----------------------------------------------------------------------------
(* Multi-Oracle Score Aggregator (src/index.js:219-321).                   *)
(*                                                                         *)
(* What one oracle request ends in:                                        *)
(*   [kind |-> "timeout" | "error" | "unparsable" | "json", value |-> V]   *)
(* V is what JSON.parse returned: [shape |-> "map", map |-> address ->     *)
(* record] or [shape |-> "other"] (null, an array, a string, a number).    *)
(* A record has score [num, v] (num = typeof score === 'number'), risk     *)
(* ("" = falsy/missing), tags [kind |-> "list" | "missing" | "noniter",    *)
(* items], reason (sequence of characters, << >> = falsy) and prediction   *)
(* ("" = falsy).                                                           *)

NoMap == [ x \in {} |-> 0 ]
EmptyValue == [ shape |-> "map", map |-> NoMap ]
UndefRec == [ score |-> [num |-> FALSE, v |-> 0], risk |-> "",
              tags |-> [kind |-> "missing", items |-> << >>],
              reason |-> << >>, prediction |-> "" ]

aiScores_zeroOnFail(reply) ==
    IF reply.kind = "json" THEN reply.value
    ELSE [ shape |-> "map",
           map |-> [ a \in Addrs |-> [ UndefRec EXCEPT !.score = [num |-> TRUE, v |-> 0] ] ] ]

(* try { ... return JSON.parse(raw || '{}') } catch (e) { return {} } *)
aiScores(reply) ==
    IF reply.kind = "json" THEN reply.value ELSE EmptyValue

(* value?.[addr] ; every field of undefined is undefined *)
Lookup(value, addr) ==
    IF value.shape = "map" /\ addr \in DOMAIN value.map
    THEN value.map[addr] ELSE UndefRec

Count(s, x) == Cardinality({ i \in 1..Len(s) : s[i] = x })

(* The first element instead of the most frequent one. *)
ModeOf_first(s, dflt) == IF s = << >> THEN dflt ELSE s[1]

(* s.sort((a, b) => count(a) - count(b)).pop() || dflt : the stable sort   *)
(* leaves, among the most frequent elements, the last one at the end.      *)
ModeOf(s, dflt) ==
    IF s = << >> THEN dflt
    ELSE LET best == CHOOSE i \in 1..Len(s) :
                        /\ \A j \in 1..Len(s) : Count(s, s[j]) <= Count(s, s[i])
                        /\ \A j \in (i + 1)..Len(s) : Count(s, s[j]) < Count(s, s[i])
         IN  s[best]

(* No de-duplication at all. *)
Dedupe_keepAll(s) == s

RECURSIVE Dedupe(_)
Dedupe(s) ==
    IF s = << >> THEN << >>
    ELSE LET init == Dedupe(SubSeq(s, 1, Len(s) - 1))
             last == s[Len(s)]
         IN  IF last \in Range(init) THEN init ELSE Append(init, last)

Take(s, n) == SubSeq(s, 1, Min2(n, Len(s)))

RECURSIVE JoinReasons(_)
JoinReasons(rs) ==
    IF rs = << >> THEN << >>
    ELSE IF Len(rs) = 1 THEN rs[1]
    ELSE rs[1] \o << " ", "|", " " >> \o JoinReasons(Tail(rs))

Spread(scores) == SeqMax(scores) - SeqMin(scores)

(* Math.min(100, Math.max(0, avg)), in sixths *)
ClampScore(avg6) == Min2(100 * ScoreScale, Max2(0, avg6))

Disagree_atLeast(scores) == Spread(scores) >= DisagreeSpread

Disagree(scores) == Spread(scores) > DisagreeSpread

Confidence(scores) == 100 - Spread(scores)

IsNum(r) == r.score.num
ScoresOf(recs) ==
    LET nums == SelectSeq(recs, IsNum)
    IN  [ i \in 1..Len(nums) |-> nums[i].score.v ]

HasRisk(r) == r.risk # ""
HasPred(r) == r.prediction # ""
HasReason(r) == r.reason # << >>

(* The body of the loop of getAIScores for one address, up to the          *)
(* assignment merged[addr] = {...}.  kind "skip" is the `continue`,        *)
(* "throw" the TypeError of spreading a value that is not iterable.        *)
MergeOne(vals, addr) ==
    LET recs == [ i \in 1..Len(vals) |-> Lookup(vals[i], addr) ]
        scores == ScoresOf(recs)
        withRisk == SelectSeq(recs, HasRisk)
        risks == [ i \in 1..Len(withRisk) |-> withRisk[i].risk ]
        withPred == SelectSeq(recs, HasPred)
        preds == [ i \in 1..Len(withPred) |-> withPred[i].prediction ]
        withReason == SelectSeq(recs, HasReason)
        reasons == [ i \in 1..Len(withReason) |-> withReason[i].reason ]
        allTags == Concat([ i \in 1..Len(recs) |-> recs[i].tags.items ])
    IN  IF scores = << >> THEN [ kind |-> "skip" ]
        ELSE IF \E i \in 1..Len(recs) : recs[i].tags.kind = "noniter"
        THEN [ kind |-> "throw" ]
        ELSE [ kind |-> "ok",
               rec |-> [ score |-> ClampScore((SeqSum(scores) * ScoreScale) \div Len(scores)),
                         risk |-> ModeOf(risks, "med"),
                         tags |-> Take(Dedupe(allTags), TagCap),
                         reason |-> Take(JoinReasons(reasons), ReasonBudget),
                         prediction |-> ModeOf(preds, "sideways"),
                         disagree |-> Disagree(scores),
                         confidence |-> Confidence(scores) ] ]

(* for (const it of items) { ...; merged[addr] = ...; updateRiskCache() }   *)
(* failAt = n > 0: the n-th fs.writeFileSync of the loop throws.  The       *)
(* result is [merged, rc, wrote, writes, err]; err # "" means the loop      *)
(* threw; wrote maps the addresses whose cache entry the loop has set.     *)
RECURSIVE MergeLoop(_, _, _, _, _, _)
MergeLoop(items, vals, t, failAt, i, acc) ==
    IF i > Len(items) \/ acc.err # "" THEN acc
    ELSE LET addr == items[i].address
             one == MergeOne(vals, addr)
         IN  IF one.kind = "skip"
             THEN MergeLoop(items, vals, t, failAt, i + 1, acc)
             ELSE IF one.kind = "throw"
             THEN [ acc EXCEPT !.err = "TypeError" ]
             ELSE MergeLoop(items, vals, t, failAt, i + 1,
                    [ merged |-> MapSet(acc.merged, addr, one.rec),
                      rc |-> updateRiskCache(acc.rc, addr, one.rec.risk, t),
                      wrote |-> MapSet(acc.wrote, addr, one.rec.risk),
                      writes |-> acc.writes + 1,
                      err |-> IF acc.writes + 1 = failAt THEN "EIO" ELSE "" ])

getAIScores(items, vals, rc, t, failAt) ==
    MergeLoop(items, vals, t, failAt, 1,
              [ merged |-> NoMap, rc |-> rc, wrote |-> NoMap, writes |-> 0, err |-> "" ])

(* An address absent from the consensus map counted as a neutral 50. *)
AiScoreOf_default50(map, address) ==
    IF address \in DOMAIN map THEN map[address].score ELSE 50 * ScoreScale

(* const aiScore = aiMap[f.address]?.score || 0 ; final, in 6000ths *)
AiScoreOf(map, address) == IF address \in DOMAIN map THEN map[address].score ELSE 0

FinalScore(f, map) ==
    baseHotness(f) * ScoreScale + AiScoreOf(map, f.address) * AI_WEIGHT * HotScale

(* The position after a sort in ascending order of final. *)
SortRank_ascending(es, i) ==
    Cardinality({ j \in 1..Len(es) : es[j].final < es[i].final })
  + Cardinality({ j \in 1..(i - 1) : es[j].final = es[i].final })

(* Position of entry i after the stable sort((a, b) => b.final - a.final). *)
SortRank(es, i) ==
    Cardinality({ j \in 1..Len(es) : es[j].final > es[i].final })
  + Cardinality({ j \in 1..(i - 1) : es[j].final = es[i].final })

SortByFinal(es) ==
    [ r \in 1..Len(es) |-> es[CHOOSE i \in 1..Len(es) : SortRank(es, i) = r - 1] ]

Scored(fs, map) ==
    SortByFinal([ i \in 1..Len(fs) |-> [ feat |-> fs[i], final |-> FinalScore(fs[i], map) ] ])

-----------------------------------------------------------------------------
(* Inputs of the cycle: what the pool listing and the oracles may return.  *)

NewAgeMs == NEW_POOL_MAX_MIN * MsPerMin

(* A pool as listed at time t. *)
Snapshot(a, kind, t) ==
    [ address |-> a,
      pool_created_at |-> IF kind = "old" THEN t - NewAgeMs - MsPerMin
                          ELSE IF kind = "fresh" THEN t
                          ELSE t - NewAgeMs,
      reserve_in_usd |-> IF kind = "thin" THEN 2999 ELSE 3000,
      vol |-> IF kind = "old" THEN 1000 ELSE 500,
      buys |-> 2,
      sells |-> IF kind = "old" THEN 12 ELSE 0,
      buyers |-> IF kind = "quiet" THEN 2 ELSE 3 ]

(* The concatenation of the fulfilled pages of fetchAllPools: nothing, one *)
(* pool, the same pool on two pages, two pools.                            *)
RawLists(t) ==
    { << >>,
      << Snapshot("a1", "new", t) >>,
      << Snapshot("a1", "new", t), Snapshot("a1", "new", t) >>,
      << Snapshot("a1", "old", t), Snapshot("a2", "old", t) >>,
      << Snapshot("a1", "thin", t), Snapshot("a1", "quiet", t) >>,
      << Snapshot("a2", "old", t), Snapshot("a1", "new", t) >> }

Rec(score, risk, tagKind, tagItems, prediction) ==
    [ score |-> [num |-> TRUE, v |-> score], risk |-> risk,
      tags |-> [kind |-> tagKind, items |-> tagItems],
      reason |-> << "o", "k" >>, prediction |-> prediction ]

JsonReply(m) == [ kind |-> "json", value |-> [ shape |-> "map", map |-> m ] ]
FailReply(k) == [ kind |-> k, value |-> EmptyValue ]
OtherReply == [ kind |-> "json", value |-> [ shape |-> "other", map |-> NoMap ] ]

FailKinds == { "timeout", "error", "unparsable" }

CycleReplies ==
    { FailReply("timeout"),
           JsonReply([ a \in {"a1"} |-> Rec(80, "low", "list", << "gem" >>, "bullish") ]),
           JsonReply([ a \in Addrs |-> Rec(40, "high", "list", << "dip" >>, "bearish") ]),
           JsonReply([ a \in {"a1"} |-> Rec(50, "", "noniter", << >>, "") ]) }

-----------------------------------------------------------------------------
(* The cycle: postTrending (src/index.js:432-496) with checkNewPools       *)
(* (335-359).  One action per stretch of code between two awaits.          *)

OracleNames == { Oracles[i] : i \in 1..Len(Oracles) }

(* The API keys present in the environment: none, one oracle that          *)
(* getMarketSummary never asks, or the two it asks.                        *)
KeyConfigs == { {}, { "groq" }, { "openai", "claude" } }

locals == << candidates, newish, idx, sentAt, feats, aiMap, scored, top, summary >>
stores == << history, riskCache, lastVolumes, alertedNewPools, lastPinnedId >>

NoObs == [ op |-> "none" ]

(* The state after the module has loaded with no history.json and no       *)
(* risk_cache.json on disk.                                                *)
Loaded ==
    /\ now = StartNow
    /\ cycleNo = 0
    /\ pc = [ p \in Procs |-> "idle" ]
    /\ runNo = [ p \in Procs |-> 0 ]
    /\ candidates = [ p \in Procs |-> << >> ]
    /\ newish = [ p \in Procs |-> << >> ]
    /\ idx = [ p \in Procs |-> 0 ]
    /\ sentAt = [ p \in Procs |-> 0 ]
    /\ feats = [ p \in Procs |-> << >> ]
    /\ aiMap = [ p \in Procs |-> NoMap ]
    /\ scored = [ p \in Procs |-> << >> ]
    /\ top = [ p \in Procs |-> << >> ]
    /\ summary = [ p \in Procs |-> "" ]
    /\ thrown = [ p \in Procs |-> "" ]
    /\ history = [ a \in Addrs |-> << >> ]
    /\ riskCache = << >>
    /\ lastVolumes = NoMap
    /\ alertedNewPools = NoMap
    /\ lastPinnedId = 0
    /\ errorCount = 0
    /\ alertLog = << >>
    /\ warnLog = << >>
    /\ consensusLog = NoMap

Init ==
    /\ Loaded
    /\ keys \in KeyConfigs
    /\ obs = NoObs

ErrorThreshold == 3

(* A catch block that lets the error escape postTrending. *)
Catch_rethrow(p, e) ==
    /\ thrown' = [ thrown EXCEPT ![p] = e ]
    /\ errorCount' = errorCount + 1
    /\ warnLog' = warnLog
    /\ pc' = [ pc EXCEPT ![p] = "rejected" ]

(* catch (e) { errorCount++; ... sendMessage(warning) } : the warning is   *)
(* the soft one while errorCount < 3, the critical one otherwise.          *)
Catch(p, e) ==
    /\ thrown' = [ thrown EXCEPT ![p] = e ]
    /\ errorCount' = errorCount + 1
    /\ warnLog' = Append(warnLog, [ run |-> runNo[p], count |-> errorCount + 1,
                                    level |-> IF errorCount + 1 < ErrorThreshold THEN "soft"
                                              ELSE "critical" ])
    /\ pc' = [ pc EXCEPT ![p] = "warn" ]

NoCatch == UNCHANGED << thrown, errorCount, warnLog >>

(* postTrending returns: its locals are gone. *)
Return(p) ==
    /\ pc' = [ pc EXCEPT ![p] = "idle" ]
    /\ candidates' = [ candidates EXCEPT ![p] = << >> ]
    /\ newish' = [ newish EXCEPT ![p] = << >> ]
    /\ idx' = [ idx EXCEPT ![p] = 0 ]
    /\ sentAt' = [ sentAt EXCEPT ![p] = 0 ]
    /\ feats' = [ feats EXCEPT ![p] = << >> ]
    /\ aiMap' = [ aiMap EXCEPT ![p] = NoMap ]
    /\ scored' = [ scored EXCEPT ![p] = << >> ]
    /\ top' = [ top EXCEPT ![p] = << >> ]
    /\ summary' = [ summary EXCEPT ![p] = "" ]
    /\ thrown' = [ thrown EXCEPT ![p] = "" ]

(* nowMs() - (alertedNewPools.get(key) || 0) > NEW_ALERT_COOLDOWN_MIN * 60000 *)
Uncooled_atLeast(alerted, key, t) == t - MapGet(alerted, key, 0) >= CooldownMs

Uncooled_wrongKey(alerted, key, t) == t - MapGet(alerted, "undefined", 0) > CooldownMs

Uncooled(alerted, key, t) == t - MapGet(alerted, key, 0) > CooldownMs

(* The loop of checkNewPools runs on without suspending until a pool is    *)
(* due an alert: the index of that pool, or Len + 1 when the loop ends.    *)
NextDue(nw, from, alerted, t) ==
    IF \E j \in from..Len(nw) : Uncooled(alerted, nw[j].address, t)
    THEN CHOOSE j \in from..Len(nw) :
            /\ Uncooled(alerted, nw[j].address, t)
            /\ \A k \in from..(j - 1) : ~Uncooled(alerted, nw[k].address, t)
    ELSE Len(nw) + 1

(* Which fs.writeFileSync of a loop of n writes throws: none (0) or the    *)
(* first.                                                                  *)
FailPoints(n) == 0..Min2(1, n)

(* for (const f of feats) updateHistory(f.address, f.vol24_now), where the *)
(* failAt-th fs.writeFileSync throws (0: none does).                       *)
RECURSIVE HistoryLoop(_, _, _, _, _)
HistoryLoop(fs, h, t, failAt, i) ==
    IF i > Len(fs) THEN [ h |-> h, err |-> "" ]
    ELSE LET h2 == updateHistory(h, fs[i].address, fs[i].vol24_now, t)
         IN  IF i = failAt THEN [ h |-> h2, err |-> "EIO" ]
             ELSE HistoryLoop(fs, h2, t, failAt, i + 1)

(* for (const c of candidates) lastVolumes.set(address, volume) *)
RECURSIVE SetVolumes(_, _, _)
SetVolumes(lv, cands, i) ==
    IF i > Len(cands) THEN lv
    ELSE SetVolumes(MapSet(lv, cands[i].address, cands[i].vol), cands, i + 1)

(* The code from the head of checkNewPools' loop to the next await: either *)
(* an alert is sent (await bot.sendMessage), or the loop ends and the      *)
(* cycle builds the features, records the history and calls the oracles.   *)
FromAlertLoop(p, cands, nw, from, alerted) ==
    LET j == NextDue(nw, from, alerted, now)
    IN  IF j <= Len(nw)
        THEN /\ idx' = [ idx EXCEPT ![p] = j ]
             /\ sentAt' = [ sentAt EXCEPT ![p] = now ]
             /\ pc' = [ pc EXCEPT ![p] = "alert" ]
             /\ UNCHANGED << feats, history >>
             /\ NoCatch
        ELSE \E failAt \in FailPoints(Len(cands)) :
                LET fs == [ i \in 1..Len(cands) |->
                              buildFeatures(cands[i], lastVolumes, history, riskCache, now) ]
                    done == HistoryLoop(fs, history, now, failAt, 1)
                IN  /\ idx' = [ idx EXCEPT ![p] = j ]
                    /\ UNCHANGED sentAt
                    /\ feats' = [ feats EXCEPT ![p] = fs ]
                    /\ history' = done.h
                    /\ IF done.err # "" THEN Catch(p, done.err)
                       ELSE /\ pc' = [ pc EXCEPT ![p] = "oracles" ]
                            /\ NoCatch

(* setInterval(postTrending) fires; errorCount = 0; safeFetch is awaited.  *)
(* Cycles do not overlap: the timer fires only when no cycle is running.   *)
StartCycle(p, limit) ==
    /\ cycleNo < limit
    /\ \A q \in Procs : pc[q] = "idle"
    /\ p = 1
    /\ cycleNo' = cycleNo + 1
    /\ runNo' = [ runNo EXCEPT ![p] = cycleNo + 1 ]
    /\ errorCount' = 0
    /\ pc' = [ pc EXCEPT ![p] = "fetch" ]
    /\ UNCHANGED << now, keys, locals, thrown, stores, alertLog, warnLog,
                    consensusLog, obs >>

TimerFire(p) == StartCycle(p, MaxCycles)

(* const candidates = raw.filter(isGoodPool); await checkNewPools(...)     *)
AfterFetch(p, raw) ==
    LET IsGood(x) == isGoodPool(x, now)
        IsNew(x) == isNewish(x, now)
        cands == SelectSeq(raw, IsGood)
        nw == SelectSeq(cands, IsNew)
    IN  /\ candidates' = [ candidates EXCEPT ![p] = cands ]
        /\ newish' = [ newish EXCEPT ![p] = nw ]
        /\ FromAlertLoop(p, cands, nw, 1, alertedNewPools)

(* safeFetch(fetchAllPools) resolves (fetchAllPools never rejects: it      *)
(* keeps the fulfilled pages); the candidates are filtered and             *)
(* checkNewPools starts.                                                   *)
FetchDone(p) ==
    /\ pc[p] = "fetch"
    /\ \E raw \in RawLists(now) : AfterFetch(p, raw)
    /\ UNCHANGED << now, cycleNo, keys, runNo, aiMap, scored, top, summary,
                    riskCache, lastVolumes, alertedNewPools, lastPinnedId,
                    alertLog, consensusLog, obs >>

(* The last-alert timestamp set whether or not the send succeeded. *)
AlertDone_setOnFailure(p) ==
    /\ pc[p] = "alert"
    /\ LET key == newish[p][idx[p]].address
       IN  \/ /\ alertedNewPools' = MapSet(alertedNewPools, key, now)
              /\ alertLog' = Append(alertLog, [ address |-> key,
                                                sentAt |-> sentAt[p],
                                                doneAt |-> now ])
              /\ FromAlertLoop(p, candidates[p], newish[p], idx[p] + 1,
                               MapSet(alertedNewPools, key, now))
           \/ /\ Catch(p, "send")
              /\ alertedNewPools' = MapSet(alertedNewPools, key, now)
              /\ UNCHANGED << alertLog, idx, sentAt, feats, history >>
    /\ UNCHANGED << now, cycleNo, keys, runNo, candidates, newish, aiMap, scored,
                    top, summary, riskCache, lastVolumes, lastPinnedId,
                    consensusLog, obs >>

(* await bot.sendMessage(alert) settles.  Fulfilled: the last-alert        *)
(* timestamp is set and the loop goes on.  Rejected: the cycle's catch.    *)
AlertDone(p) ==
    /\ pc[p] = "alert"
    /\ LET key == newish[p][idx[p]].address
       IN  \/ /\ alertedNewPools' = MapSet(alertedNewPools, key, now)
              /\ alertLog' = Append(alertLog, [ address |-> key,
                                                sentAt |-> sentAt[p],
                                                doneAt |-> now ])
              /\ FromAlertLoop(p, candidates[p], newish[p], idx[p] + 1,
                               MapSet(alertedNewPools, key, now))
           \/ /\ Catch(p, "send")
              /\ UNCHANGED << alertedNewPools, alertLog, idx, sentAt, feats, history >>
    /\ UNCHANGED << now, cycleNo, keys, runNo, candidates, newish, aiMap, scored,
                    top, summary, riskCache, lastVolumes, lastPinnedId,
                    consensusLog, obs >>

LogConsensus(log, wrote, t, run) ==
    [ a \in (DOMAIN log) \cup (DOMAIN wrote) |->
        IF a \in DOMAIN wrote THEN [ risk |-> wrote[a], at |-> t, run |-> run ]
        ELSE log[a] ]

(* Promise.allSettled of the three aiScores calls settles; the merge loop  *)
(* runs, then the ranking; getMarketSummary awaits an oracle only when the *)
(* Claude or the OpenAI key is set.                                        *)
OraclesSettled(p) ==
    /\ pc[p] = "oracles"
    /\ \E replies \in [ 1..Len(Oracles) -> CycleReplies ],
          failAt \in FailPoints(Len(feats[p])) :
          /\ \A i \in 1..Len(Oracles) :
                Oracles[i] \notin keys => replies[i] = FailReply("timeout")
          /\ LET vals == [ i \in 1..Len(Oracles) |->
                             IF Oracles[i] \in keys THEN aiScores(replies[i])
                             ELSE EmptyValue ]
                 res == getAIScores(feats[p], vals, riskCache, now, failAt)
                 ranked == Scored(feats[p], res.merged)
             IN  /\ riskCache' = res.rc
                 /\ consensusLog' = LogConsensus(consensusLog, res.wrote, now, runNo[p])
                 /\ IF res.err # ""
                    THEN /\ Catch(p, res.err)
                         /\ UNCHANGED << aiMap, scored, top >>
                    ELSE /\ aiMap' = [ aiMap EXCEPT ![p] = res.merged ]
                         /\ scored' = [ scored EXCEPT ![p] = ranked ]
                         /\ top' = [ top EXCEPT ![p] = Take(ranked, TRENDING_SIZE) ]
                         /\ pc' = [ pc EXCEPT ![p] =
                                      IF "claude" \in keys \/ "openai" \in keys
                                      THEN "summary" ELSE "send" ]
                         /\ NoCatch
    /\ UNCHANGED << now, cycleNo, keys, runNo, candidates, newish, idx, sentAt,
                    feats, summary, history, lastVolumes, alertedNewPools,
                    lastPinnedId, alertLog, obs >>

(* The summary request of getMarketSummary settles: text, or '' on failure. *)
SummaryDone(p) ==
    /\ pc[p] = "summary"
    /\ \E text \in { "", "calm" } : summary' = [ summary EXCEPT ![p] = text ]
    /\ pc' = [ pc EXCEPT ![p] = "send" ]
    /\ NoCatch
    /\ UNCHANGED << now, cycleNo, keys, runNo, candidates, newish, idx, sentAt,
                    feats, aiMap, scored, top, stores, alertLog, consensusLog, obs >>

(* await bot.sendMessage(trending) settles; unpin and delete of the old    *)
(* pinned message swallow their errors; pinChatMessage is awaited.         *)
SendDone(p) ==
    /\ pc[p] = "send"
    /\ \/ /\ pc' = [ pc EXCEPT ![p] = "pin" ]
          /\ NoCatch
       \/ Catch(p, "send")
    /\ UNCHANGED << now, cycleNo, keys, runNo, locals, stores, alertLog,
                    consensusLog, obs >>

(* The prior volumes recorded even when the pin fails. *)
PinDone_setOnFailure(p) ==
    /\ pc[p] = "pin"
    /\ \/ /\ lastPinnedId' = runNo[p]
          /\ lastVolumes' = SetVolumes(lastVolumes, candidates[p], 1)
          /\ Return(p)
          /\ UNCHANGED << errorCount, warnLog >>
       \/ /\ Catch(p, "pin")
          /\ lastVolumes' = SetVolumes(lastVolumes, candidates[p], 1)
          /\ UNCHANGED << lastPinnedId, locals >>
    /\ UNCHANGED << now, cycleNo, keys, runNo, history, riskCache,
                    alertedNewPools, alertLog, consensusLog, obs >>

(* await bot.pinChatMessage settles; lastPinnedId and lastVolumes are set. *)
PinDone(p) ==
    /\ pc[p] = "pin"
    /\ \/ /\ lastPinnedId' = runNo[p]
          /\ lastVolumes' = SetVolumes(lastVolumes, candidates[p], 1)
          /\ Return(p)
          /\ UNCHANGED << errorCount, warnLog >>
       \/ /\ Catch(p, "pin")
          /\ UNCHANGED << lastPinnedId, lastVolumes, locals >>
    /\ UNCHANGED << now, cycleNo, keys, runNo, history, riskCache,
                    alertedNewPools, alertLog, consensusLog, obs >>

(* The warning message of the catch block settles (.catch(() => {})).      *)
WarnDone(p) ==
    /\ pc[p] = "warn"
    /\ Return(p)
    /\ UNCHANGED << now, cycleNo, keys, runNo, stores, errorCount, warnLog,
                    alertLog, consensusLog, obs >>

(* Time passes, one quantum (15 min) at a time.  An await of a cycle ends  *)
(* within its timeout (20 s), far less than a quantum, so on this clock    *)
(* time passes between cycles only.                                        *)
Tick ==
    /\ now < MaxNow
    /\ \A p \in Procs : pc[p] = "idle"
    /\ now' = now + Quantum
    /\ UNCHANGED << cycleNo, keys, pc, runNo, locals, thrown, stores, errorCount,
                    alertLog, warnLog, consensusLog, obs >>

Next ==
    \/ \E p \in Procs : TimerFire(p)
    \/ \E p \in Procs : FetchDone(p)
    \/ \E p \in Procs : AlertDone(p)
    \/ \E p \in Procs : OraclesSettled(p)
    \/ \E p \in Procs : SummaryDone(p)
    \/ \E p \in Procs : SendDone(p)
    \/ \E p \in Procs : PinDone(p)
    \/ \E p \in Procs : WarnDone(p)
    \/ Tick

Spec == Init /\ [][Next]_vars

-----------------------------------------------------------------------------
(* The cycle with the pool listing seen page by page: safeFetch            *)
(* (src/index.js:124-134) around fetchAllPools (147-158).  obs keeps the   *)
(* outcome of each page request, the attempts safeFetch made and the       *)
(* flattened listing it returned.                                          *)

SafeFetchRetries == 4
BackoffStepMs == 3000

(* fetchAllPools: Promise.allSettled of the page requests; the data of the *)
(* fulfilled pages, in page order.  It never rejects.                      *)
fetchAllPools(pages) ==
    [ rejected |-> FALSE,
      value |-> Concat([ i \in 1..Len(pages) |->
                           IF pages[i].ok THEN pages[i].data ELSE << >> ]) ]

(* safeFetch with the same wait after every failed attempt. *)
RECURSIVE SafeFetchFrom_flatWait(_, _, _, _)
SafeFetchFrom_flatWait(calls, i, retries, waits) ==
    IF i >= retries
    THEN [ threw |-> TRUE, value |-> << >>, attempts |-> i, waits |-> waits ]
    ELSE IF ~calls[i + 1].rejected
    THEN [ threw |-> FALSE, value |-> calls[i + 1].value, attempts |-> i + 1,
           waits |-> waits ]
    ELSE SafeFetchFrom_flatWait(calls, i + 1, retries, Append(waits, BackoffStepMs))

(* safeFetch(fn, retries): calls[i] is the outcome of the i-th call of fn. *)
(* The first fulfilled call is returned; a rejected call i (from 1) is     *)
(* followed by a wait of 3000 * i ms; after `retries` rejections it throws. *)
RECURSIVE SafeFetchFrom(_, _, _, _)
SafeFetchFrom(calls, i, retries, waits) ==
    IF i >= retries
    THEN [ threw |-> TRUE, value |-> << >>, attempts |-> i, waits |-> waits ]
    ELSE IF ~calls[i + 1].rejected
    THEN [ threw |-> FALSE, value |-> calls[i + 1].value, attempts |-> i + 1,
           waits |-> waits ]
    ELSE SafeFetchFrom(calls, i + 1, retries, Append(waits, BackoffStepMs * (i + 1)))

safeFetch(calls, retries) == SafeFetchFrom(calls, 0, retries, << >>)

PageFailed == [ ok |-> FALSE, data |-> << >> ]
PageOf(data) == [ ok |-> TRUE, data |-> data ]

(* The outcomes of the three page requests of one fetchAllPools: every     *)
(* request fails; some fail; empty pages; a pool that passes the new-pool  *)
(* predicate, alone, listed on two pages, or next to an old pool; a pool   *)
(* listed seconds after its creation.                                      *)
PageOutcomes(t) ==
    { << PageFailed, PageFailed, PageFailed >>,
      << PageOf(<< >>), PageOf(<< >>), PageFailed >>,
      << PageFailed, PageOf(<< Snapshot("a1", "new", t) >>), PageFailed >>,
      << PageOf(<< Snapshot("a1", "new", t) >>), PageOf(<< >>),
         PageOf(<< Snapshot("a1", "new", t) >>) >>,
      << PageOf(<< Snapshot("a2", "old", t), Snapshot("a1", "new", t) >>),
         PageFailed, PageOf(<< >>) >>,
      << PageOf(<< Snapshot("a1", "fresh", t) >>), PageOf(<< Snapshot("a2", "old", t) >>),
         PageOf(<< >>) >>,
      << PageOf(<< Snapshot("a2", "fresh", t) >>), PageOf(<< >>), PageOf(<< >>) >> }

InitFetch ==
    /\ Loaded
    /\ keys = {}
    /\ obs = NoObs

(* await safeFetch(fetchAllPools) settles.  Every call of fetchAllPools    *)
(* fulfils, so the calls after the first are never made; they are given    *)
(* the outcome of the first.                                               *)
FetchSettled(p) ==
    /\ pc[p] = "fetch"
    /\ \E pages \in PageOutcomes(now) :
          LET calls == [ i \in 1..SafeFetchRetries |-> fetchAllPools(pages) ]
              got == safeFetch(calls, SafeFetchRetries)
          IN  /\ obs' = [ op |-> "fetch", pages |-> pages, attempts |-> got.attempts,
                          threw |-> got.threw, raw |-> got.value ]
              /\ IF got.threw
                 THEN /\ Catch(p, "fetch")
                      /\ UNCHANGED << candidates, newish, idx, sentAt, feats, history >>
                 ELSE AfterFetch(p, got.value)
    /\ UNCHANGED << now, cycleNo, keys, runNo, aiMap, scored, top, summary,
                    riskCache, lastVolumes, alertedNewPools, lastPinnedId,
                    alertLog, consensusLog >>

NextFetch ==
    \/ \E p \in Procs : TimerFire(p)
    \/ \E p \in Procs : FetchSettled(p)
    \/ \E p \in Procs : AlertDone(p)
    \/ \E p \in Procs : OraclesSettled(p)
    \/ \E p \in Procs : SendDone(p)
    \/ \E p \in Procs : PinDone(p)
    \/ \E p \in Procs : WarnDone(p)
    \/ Tick

SpecFetch == InitFetch /\ [][NextFetch]_vars

-----------------------------------------------------------------------------
(* safeFetch on its own, around any function: each call of fn rejects or   *)
(* fulfils with a value, and retries is any count up to MaxRetries.        *)

MaxRetries == 4

CallOutcomes ==
    { [ rejected |-> TRUE, value |-> << >> ],
      [ rejected |-> FALSE, value |-> << "A" >> ],
      [ rejected |-> FALSE, value |-> << "B" >> ] }

Retry ==
    /\ obs.op = "none"
    /\ \E retries \in 0..MaxRetries :
          \E calls \in [ 1..retries -> CallOutcomes ] :
             obs' = [ op |-> "retry", calls |-> calls, retries |-> retries,
                      result |-> safeFetch(calls, retries) ]
    /\ UNCHANGED << now, cycleNo, keys, pc, runNo, locals, thrown, stores,
                    errorCount, alertLog, warnLog, consensusLog >>

NextRetry == Retry

SpecRetry == InitFetch /\ [][NextRetry]_vars

-----------------------------------------------------------------------------
(* The same cycle over a longer run of timer ticks, to follow errorCount   *)
(* across consecutive cycles.                                              *)

MaxRuns == 3

RunsTimerFire(p) == StartCycle(p, MaxRuns)

NextRuns ==
    \/ \E p \in Procs : RunsTimerFire(p)
    \/ \E p \in Procs : FetchSettled(p)
    \/ \E p \in Procs : AlertDone(p)
    \/ \E p \in Procs : OraclesSettled(p)
    \/ \E p \in Procs : SendDone(p)
    \/ \E p \in Procs : PinDone(p)
    \/ \E p \in Procs : WarnDone(p)
    \/ Tick

SpecRuns == InitFetch /\ [][NextRuns]_vars

-----------------------------------------------------------------------------
(* The cycle without the assumption that cycles do not overlap:            *)
(* setInterval (src/index.js:507) calls postTrending every 3 minutes       *)
(* whether or not the previous call has returned, so a second instance can *)
(* start while the first is suspended at an await.  The interval is        *)
(* shorter than a clock quantum, so no Tick is needed in between.          *)

ReentrantTimerFire(p) ==
    /\ cycleNo < MaxCycles
    /\ pc[p] = "idle"
    /\ \A q \in Procs : q < p => pc[q] # "idle"
    /\ cycleNo' = cycleNo + 1
    /\ runNo' = [ runNo EXCEPT ![p] = cycleNo + 1 ]
    /\ errorCount' = 0
    /\ pc' = [ pc EXCEPT ![p] = "fetch" ]
    /\ UNCHANGED << now, keys, locals, thrown, stores, alertLog, warnLog,
                    consensusLog, obs >>

NextOverlap ==
    \/ \E p \in Procs : ReentrantTimerFire(p)
    \/ \E p \in Procs : FetchDone(p)
    \/ \E p \in Procs : AlertDone(p)
    \/ \E p \in Procs : OraclesSettled(p)
    \/ \E p \in Procs : SendDone(p)
    \/ \E p \in Procs : PinDone(p)
    \/ \E p \in Procs : WarnDone(p)
    \/ Tick

SpecOverlap == InitFetch /\ [][NextOverlap]_vars

-----------------------------------------------------------------------------
(* The History Tracker on its own: any sequence of updateHistory calls.    *)
(* obs.recorded keeps every point ever recorded, per address.              *)

MaxRecords == 5
HistVols == { 0, 500, 1000 }

cycleState == << cycleNo, keys, pc, runNo, locals, thrown, lastVolumes,
                 alertedNewPools, lastPinnedId, errorCount, alertLog, warnLog,
                 consensusLog >>

InitHistory ==
    /\ Loaded
    /\ keys = {}
    /\ obs = [ op |-> "history", recorded |-> [ a \in Addrs |-> << >> ] ]

RecordedCount == SeqSum([ i \in 1..2 |-> Len(obs.recorded[<< "a1", "a2" >>[i]]) ])

RecordPoint(a, v) ==
    /\ RecordedCount < MaxRecords
    /\ history' = updateHistory(history, a, v, now)
    /\ obs' = [ obs EXCEPT !.recorded[a] = Append(@, [ t |-> now, v |-> v ]) ]
    /\ now' = now + 1
    /\ UNCHANGED << cycleState, riskCache >>

NextHistory == \E a \in Addrs, v \in HistVols : RecordPoint(a, v)

SpecHistory == InitHistory /\ [][NextHistory]_vars

-----------------------------------------------------------------------------
(* The Risk Cache on its own: writes, reads and the passing of time.       *)
(* Addresses are opaque keys, so a write of a key the cache does not hold  *)
(* takes the first such key of KeyOrder.                                   *)

KeyOrder == << "a1", "a2", "k1", "k2", "k3", "k4" >>
MaxWrites == 6
LabelsFor(k) == IF k = "a1" THEN { "low", "high" } ELSE { "med" }

FreshKey(rc) ==
    IF \E i \in 1..Len(KeyOrder) : KeyOrder[i] \notin RcKeys(rc)
    THEN { KeyOrder[CHOOSE i \in 1..Len(KeyOrder) :
              /\ KeyOrder[i] \notin RcKeys(rc)
              /\ \A j \in 1..(i - 1) : KeyOrder[j] \in RcKeys(rc)] }
    ELSE {}

InitRisk ==
    /\ Loaded
    /\ keys = {}
    /\ obs = [ op |-> "none", k |-> "", risk |-> "", result |-> "", writes |-> 0,
               evicted |-> FALSE ]

WriteRisk(k, r) ==
    /\ obs.writes < MaxWrites
    /\ k \in RcKeys(riskCache) \cup FreshKey(riskCache)
    /\ riskCache' = updateRiskCache(riskCache, k, r, now)
    /\ obs' = [ op |-> "write", k |-> k, risk |-> r, result |-> "",
                writes |-> obs.writes + 1,
                evicted |-> Len(riskCache') < Cardinality(RcKeys(riskCache) \cup {k}) ]
    /\ UNCHANGED << now, cycleState, history >>

ReadRisk(k) ==
    /\ obs' = [ op |-> "read", k |-> k, risk |-> "",
                result |-> getCachedRisk(riskCache, k, now), writes |-> obs.writes,
                evicted |-> FALSE ]
    /\ UNCHANGED << now, cycleState, history, riskCache >>

NextRisk ==
    \/ \E k \in CacheKeys : \E r \in LabelsFor(k) : WriteRisk(k, r)
    \/ \E k \in CacheKeys : ReadRisk(k)
    \/ Tick

SpecRisk == InitRisk /\ [][NextRisk]_vars

-----------------------------------------------------------------------------
(* The aggregator on its own: one call of getAIScores on any combination   *)
(* of oracle outcomes.  obs keeps the call's inputs and its result.        *)

NotNum == [ num |-> FALSE, v |-> 0 ]

AggRecs ==
    { Rec(60, "low", "list", << "gem", "pump" >>, "bullish"),
      Rec(70, "high", "list", << "pump", "dip" >>, "bearish"),
      Rec(95, "high", "list", << "moon" >>, "bullish"),
      Rec(75, "med", "missing", << >>, ""),
      Rec(150, "", "list", << "gem" >>, "sideways"),
      Rec(0 - 30, "extreme", "missing", << >>, "bearish"),
      [ Rec(0, "low", "list", << "dip" >>, "") EXCEPT !.score = NotNum ],
      Rec(50, "low", "noniter", << >>, ""),
      Rec(65, "med", "list", << "new", "hot", "gem", "rug" >>, "sideways") }

AggReplies ==
    { FailReply(k) : k \in FailKinds }
    \cup { OtherReply }
    \cup { JsonReply([ a \in {"a1"} |-> r ]) : r \in AggRecs }
    \cup { JsonReply([ a \in Addrs |-> Rec(40, "high", "list", << "dip" >>, "bearish") ]) }

AggItems ==
    { << [address |-> "a1"] >>,
      << [address |-> "a1"], [address |-> "a2"] >>,
      << [address |-> "a2"], [address |-> "a1"], [address |-> "a2"] >> }

InitAgg ==
    /\ Loaded
    /\ keys \in { OracleNames, { "openai", "groq" } }
    /\ obs = NoObs

Aggregate ==
    /\ obs.op = "none"
    /\ \E items \in AggItems, replies \in [ 1..Len(Oracles) -> AggReplies ],
          failAt \in FailPoints(1) :
          /\ \A i \in 1..Len(Oracles) :
                Oracles[i] \notin keys => replies[i] = FailReply("timeout")
          /\ LET vals == [ i \in 1..Len(Oracles) |->
                             IF Oracles[i] \in keys THEN aiScores(replies[i])
                             ELSE EmptyValue ]
                 res == getAIScores(items, vals, riskCache, now, failAt)
             IN  /\ riskCache' = res.rc
                 /\ consensusLog' = LogConsensus(consensusLog, res.wrote, now, 0)
                 /\ obs' = [ op |-> "agg", items |-> items, replies |-> replies,
                             failAt |-> failAt, merged |-> res.merged,
                             err |-> res.err ]
    /\ UNCHANGED << now, cycleNo, keys, pc, runNo, locals, thrown, history,
                    lastVolumes, alertedNewPools, lastPinnedId, errorCount,
                    alertLog, warnLog >>

NextAgg == Aggregate

SpecAgg == InitAgg /\ [][NextAgg]_vars

-----------------------------------------------------------------------------
(* The ranking on its own (src/index.js:438-453): the features of any list *)
(* of up to MaxRanked candidates, scored against any consensus map, sorted *)
(* and cut to TRENDING_SIZE.  obs keeps the entries before the sort.       *)

MaxRanked == 4

RankPools(t) == { Snapshot(a, kind, t) : a \in Addrs, kind \in { "new", "old" } }

RankLists(t) == UNION { [ 1..n -> RankPools(t) ] : n \in 0..MaxRanked }

ConsensusOf(score) ==
    [ score |-> score, risk |-> "med", tags |-> << >>, reason |-> << >>,
      prediction |-> "sideways", disagree |-> FALSE, confidence |-> 100 ]

RankMaps ==
    { NoMap,
      [ a \in {"a1"} |-> ConsensusOf(100 * ScoreScale) ],
      [ a \in {"a2"} |-> ConsensusOf(425) ],
      [ a \in Addrs |-> ConsensusOf(IF a = "a1" THEN 0 ELSE 1) ] }

InitRank ==
    /\ Loaded
    /\ keys = {}
    /\ obs = NoObs

Rank(p) ==
    /\ obs.op = "none"
    /\ p = 1
    /\ \E cands \in RankLists(now), map \in RankMaps :
          LET fs == [ i \in 1..Len(cands) |->
                        buildFeatures(cands[i], lastVolumes, history, riskCache, now) ]
              ranked == Scored(fs, map)
          IN  /\ candidates' = [ candidates EXCEPT ![p] = cands ]
              /\ feats' = [ feats EXCEPT ![p] = fs ]
              /\ aiMap' = [ aiMap EXCEPT ![p] = map ]
              /\ scored' = [ scored EXCEPT ![p] = ranked ]
              /\ top' = [ top EXCEPT ![p] = Take(ranked, TRENDING_SIZE) ]
              /\ obs' = [ op |-> "rank",
                          entries |-> [ i \in 1..Len(fs) |->
                                          [ feat |-> fs[i],
                                            final |-> FinalScore(fs[i], map) ] ] ]
    /\ UNCHANGED << now, cycleNo, keys, pc, runNo, newish, idx, sentAt, summary,
                    thrown, stores, errorCount, alertLog, warnLog, consensusLog >>

NextRank == \E p \in Procs : Rank(p)

SpecRank == InitRank /\ [][NextRank]_vars

-----------------------------------------------------------------------------
(* The Feature Builder and the Hotness Ranker on their own: buildFeatures  *)
(* (src/index.js:169-208) and baseHotness (362-371) applied to one pool    *)
(* under any prior volume, history series and Risk Cache entry.  obs keeps *)
(* the inputs and the results.                                             *)

FeatPools(t) ==
    { [ address |-> "a1",
        pool_created_at |-> t - age * MsPerMin,
        reserve_in_usd |-> 3000,
        vol |-> vol, buys |-> 2, sells |-> sells, buyers |-> buyers ] :
      age \in { 30, 60, 120, 400 }, vol \in { 0, 10000 },
      sells \in { 0, 12 }, buyers \in { 0, 5 } }

(* lastVolumes: the address never seen, or seen with a volume. *)
PriorVolumes == { NoMap } \cup { [ a \in {"a1"} |-> v ] : v \in { 0, 8000, 12000 } }

SeriesOf(vs, t) == [ i \in 1..Len(vs) |-> [ t |-> t, v |-> vs[i] ] ]

FeatSeries ==
    { << >>, << 0 >>, << 0, 0 >>, << 0, 500 >>, << 8000, 10000 >>,
      << 1000, 10000, 1000 >> }

(* The Risk Cache: no entry, a fresh one, one exactly an hour old. *)
FeatCaches(t) ==
    { << >>,
      << [ k |-> "a1", risk |-> "low", updated |-> t ] >>,
      << [ k |-> "a1", risk |-> "high", updated |-> t ] >>,
      << [ k |-> "a1", risk |-> "low", updated |-> t - RiskTtlMs ] >> }

InitFeat ==
    /\ Loaded
    /\ keys = {}
    /\ obs = NoObs

Features(p) ==
    /\ obs.op = "none"
    /\ p = 1
    /\ \E pool \in FeatPools(now), lv \in PriorVolumes, vs \in FeatSeries,
          rc \in FeatCaches(now) :
          LET h == [ a \in Addrs |-> IF a = "a1" THEN SeriesOf(vs, now) ELSE << >> ]
              f == buildFeatures(pool, lv, h, rc, now)
          IN  /\ feats' = [ feats EXCEPT ![p] = << f >> ]
              /\ obs' = [ op |-> "feat", pool |-> pool, lv |-> lv, series |-> vs,
                          rc |-> rc, feat |-> f,
                          stats |-> getHistoryStats(h, pool.address),
                          hot |-> baseHotness(f) ]
    /\ UNCHANGED << now, cycleNo, keys, pc, runNo, candidates, newish, idx, sentAt,
                    aiMap, scored, top, summary, thrown, stores, errorCount,
                    alertLog, warnLog, consensusLog >>

NextFeat == \E p \in Procs : Features(p)

SpecFeat == InitFeat /\ [][NextFeat]_vars

-----------------------------------------------------------------------------
(* Summary mode (src/index.js:211-217, 219-271, 323-332): getMarketSummary *)
(* under any set of configured keys and any outcome of each oracle's       *)
(* request.  A text is a sequence of characters.  An outcome is            *)
(* [kind |-> "timeout" | "error" | "text", raw |-> the content returned]   *)
(* where raw = << >> is a reply without content.                           *)

RECURSIVE DropSpaces(_)
DropSpaces(s) ==
    IF s # << >> /\ Head(s) = " " THEN DropSpaces(Tail(s)) ELSE s

RECURSIVE DropSpacesEnd(_)
DropSpacesEnd(s) ==
    IF s # << >> /\ s[Len(s)] = " " THEN DropSpacesEnd(SubSeq(s, 1, Len(s) - 1)) ELSE s

(* String.prototype.trim *)
Trim(s) == DropSpacesEnd(DropSpaces(s))

(* replace(/,\s*}/g, '}').replace(/,\s*]/g, ']') *)
RECURSIVE StripCommas(_)
StripCommas(s) ==
    IF s = << >> THEN << >>
    ELSE LET rest == DropSpaces(Tail(s))
         IN  IF Head(s) = "," /\ rest # << >> /\ Head(rest) \in { "}", "]" }
             THEN StripCommas(rest)
             ELSE << Head(s) >> \o StripCommas(Tail(s))

(* raw.match(/\{[\s\S]*\}/): from the first "{" to the last "}" after it. *)
BraceMatch(raw) ==
    LET opens == { i \in 1..Len(raw) : raw[i] = "{" }
        first == CHOOSE i \in opens : \A j \in opens : i <= j
        closes == { i \in 1..Len(raw) : raw[i] = "}" /\ i > first }
        last == CHOOSE i \in closes : \A j \in closes : j <= i
    IN  IF opens # {} /\ closes # {} THEN SubSeq(raw, first, last) ELSE raw

cleanJsonString(raw) ==
    IF raw = << >> THEN << "{", "}" >> ELSE StripCommas(BraceMatch(raw))

(* aiScores(..., isSummary = true): cleanJsonString(raw).trim(), or '' in  *)
(* the catch block.                                                        *)
aiScoresSummary(outcome) ==
    IF outcome.kind = "text" THEN Trim(cleanJsonString(outcome.raw)) ELSE << >>

(* No key: ''.  Claude's key: Claude's answer.  Else OpenAI's key:         *)
(* OpenAI's answer.  Else ''.                                              *)
getMarketSummary(ks, answers) ==
    IF ks = {} THEN << >>
    ELSE IF "claude" \in ks THEN aiScoresSummary(answers["claude"])
    ELSE IF "openai" \in ks THEN aiScoresSummary(answers["openai"])
    ELSE << >>

SummaryOutcomes ==
    { [ kind |-> "timeout", raw |-> << >> ],
      [ kind |-> "text", raw |-> << >> ],
      [ kind |-> "text", raw |-> << " ", "c", "a", "l", "m", " " >> ],
      [ kind |-> "text", raw |-> << "u", "p", " ", "{", "x", ",", " ", "}", "!" >> ] }

InitSummary ==
    /\ Loaded
    /\ keys \in SUBSET OracleNames
    /\ obs = NoObs

Summarize ==
    /\ obs.op = "none"
    /\ \E answers \in [ OracleNames -> SummaryOutcomes ] :
          obs' = [ op |-> "summary", answers |-> answers,
                   result |-> getMarketSummary(keys, answers) ]
    /\ UNCHANGED << now, cycleState, history, riskCache >>

NextSummary == Summarize

SpecSummary == InitSummary /\ [][NextSummary]_vars

-----------------------------------------------------------------------------
(* The v10 variant of the bot (src/unnamed/part_001): the same cycle       *)
(* without alerts, Risk Cache or summary, and with its own aggregator.     *)

V10_TRENDING_SIZE == 5
V10_MIN_LIQ_USD == 5000
V10_MIN_VOL24_USD == 1000
V10_MIN_BUYS_24H == 3
V10_AI_WEIGHT == 1500
V10_HISTORY_MAX_POINTS == 2016
V10_MinAgeMin == 3
V10_DefaultScore == 50

V10updateHistory(h, address, vol24, t) ==
    LET pushed == Append(h[address], [t |-> t, v |-> vol24])
    IN  [ h EXCEPT ![address] =
            IF Len(pushed) > V10_HISTORY_MAX_POINTS THEN Tail(pushed) ELSE pushed ]

(* getHistoryStats: avg = hist_sum / hist_len, 0 for an empty series *)
V10getHistoryStats(h, address) ==
    [ hist_sum |-> SeqSum([ i \in 1..Len(h[address]) |-> h[address][i].v ]),
      hist_len |-> Len(h[address]) ]

V10isGoodPool(p, t) ==
    /\ p.reserve_in_usd >= V10_MIN_LIQ_USD
    /\ p.vol >= V10_MIN_VOL24_USD
    /\ p.buys >= V10_MIN_BUYS_24H
    /\ t - p.pool_created_at >= V10_MinAgeMin * MsPerMin

V10buildFeatures(p, lv, h) ==
    LET volNow == p.vol
        got == MapGet(lv, p.address, 0)
        volPrev == IF got # 0 THEN got ELSE volNow
    IN  [ address |-> p.address,
          liq_usd |-> p.reserve_in_usd,
          vol24_now |-> volNow,
          vol24_delta_5m |-> volNow - volPrev,
          buys24 |-> p.buys,
          sells24 |-> p.sells,
          hist |-> V10getHistoryStats(h, p.address) ]

(* The body of the loop of getAIScores: every item gets an entry; the      *)
(* score is the unclamped mean (in sixths) or 50 when no oracle scored it. *)
V10MergeOne(vals, addr) ==
    LET recs == [ i \in 1..Len(vals) |-> Lookup(vals[i], addr) ]
        scores == ScoresOf(recs)
        withRisk == SelectSeq(recs, HasRisk)
        withPred == SelectSeq(recs, HasPred)
        withReason == SelectSeq(recs, HasReason)
    IN  [ score |-> IF scores # << >>
                    THEN (SeqSum(scores) * ScoreScale) \div Len(scores)
                    ELSE V10_DefaultScore * ScoreScale,
          risk |-> IF withRisk # << >> THEN withRisk[1].risk ELSE "med",
          reason |-> IF withReason # << >> THEN withReason[1].reason ELSE << >>,
          prediction |-> IF withPred # << >> THEN withPred[1].prediction ELSE "" ]

V10getAIScores(items, vals) ==
    [ a \in { items[i].address : i \in 1..Len(items) } |-> V10MergeOne(vals, a) ]

(* f.vol24_now + (aiMap[f.address]?.score || 50) * Number(AI_WEIGHT), in   *)
(* sixths; a score of 0 is falsy and counts as 50.                         *)
V10FinalScore(f, map) ==
    LET got == IF f.address \in DOMAIN map THEN map[f.address].score ELSE 0
        ai == IF got # 0 THEN got ELSE V10_DefaultScore * ScoreScale
    IN  f.vol24_now * ScoreScale + ai * V10_AI_WEIGHT

V10Scored(fs, map) ==
    SortByFinal([ i \in 1..Len(fs) |-> [ feat |-> fs[i], final |-> V10FinalScore(fs[i], map) ] ])

V10Snapshot(a, kind, t) ==
    [ address |-> a,
      pool_created_at |-> IF kind = "young" THEN t - (V10_MinAgeMin - 1) * MsPerMin
                          ELSE t - V10_MinAgeMin * MsPerMin,
      reserve_in_usd |-> V10_MIN_LIQ_USD,
      vol |-> IF kind = "busy" THEN 2 * V10_MIN_VOL24_USD ELSE V10_MIN_VOL24_USD,
      buys |-> V10_MIN_BUYS_24H,
      sells |-> 0,
      buyers |-> 0 ]

V10RawLists(t) ==
    { << >>,
      << V10Snapshot("a1", "good", t) >>,
      << V10Snapshot("a1", "busy", t), V10Snapshot("a2", "good", t) >>,
      << V10Snapshot("a2", "good", t), V10Snapshot("a1", "good", t) >>,
      << V10Snapshot("a1", "young", t), V10Snapshot("a2", "busy", t) >> }

V10Replies ==
    { FailReply("timeout"),
      OtherReply,
      JsonReply([ a \in {"a1"} |-> Rec(80, "low", "list", << "gem" >>, "bullish") ]),
      JsonReply([ a \in {"a1"} |-> Rec(0, "high", "list", << >>, "bearish") ]),
      JsonReply([ a \in {"a2"} |->
                    [ Rec(0, "low", "list", << >>, "") EXCEPT !.score = NotNum ] ]) }

InitV10 ==
    /\ Loaded
    /\ keys \in { OracleNames, { "openai" } }
    /\ obs = NoObs

V10Return(p) ==
    /\ Return(p)
    /\ obs' = NoObs

V10TimerFire(p) ==
    /\ cycleNo < MaxCycles
    /\ \A q \in Procs : pc[q] = "idle"
    /\ p = 1
    /\ cycleNo' = cycleNo + 1
    /\ runNo' = [ runNo EXCEPT ![p] = cycleNo + 1 ]
    /\ pc' = [ pc EXCEPT ![p] = "fetch" ]
    /\ UNCHANGED << now, keys, locals, thrown, stores, errorCount, alertLog,
                    warnLog, consensusLog, obs >>

(* safeFetch(fetchAllPools) resolves; candidates, feats, the history loop  *)
(* and the write of the history file, which may throw into the catch that  *)
(* only logs.                                                              *)
V10FetchDone(p) ==
    /\ pc[p] = "fetch"
    /\ \E raw \in V10RawLists(now), writeFails \in BOOLEAN :
          LET IsGood(x) == V10isGoodPool(x, now)
              cands == SelectSeq(raw, IsGood)
              fs == [ i \in 1..Len(cands) |->
                        V10buildFeatures(cands[i], lastVolumes, history) ]
              Record[i \in 0..Len(fs)] ==
                  IF i = 0 THEN history
                  ELSE V10updateHistory(Record[i - 1], fs[i].address, fs[i].vol24_now, now)
          IN  /\ history' = Record[Len(fs)]
              /\ IF writeFails
                 THEN /\ V10Return(p)
                 ELSE /\ candidates' = [ candidates EXCEPT ![p] = cands ]
                      /\ feats' = [ feats EXCEPT ![p] = fs ]
                      /\ pc' = [ pc EXCEPT ![p] = "oracles" ]
                      /\ UNCHANGED << newish, idx, sentAt, aiMap, scored, top,
                                      summary, thrown, obs >>
    /\ UNCHANGED << now, cycleNo, keys, runNo, riskCache, lastVolumes,
                    alertedNewPools, lastPinnedId, errorCount, alertLog, warnLog,
                    consensusLog >>

(* Promise.allSettled of the three aiScores settles; merged, scored and    *)
(* top are computed and the first chunk is sent.  obs keeps what the       *)
(* oracles returned.                                                       *)
V10OraclesSettled(p) ==
    /\ pc[p] = "oracles"
    /\ \E replies \in [ 1..Len(Oracles) -> V10Replies ] :
          /\ \A i \in 1..Len(Oracles) :
                Oracles[i] \notin keys => replies[i] = FailReply("timeout")
          /\ LET vals == [ i \in 1..Len(Oracles) |->
                             IF Oracles[i] \in keys THEN aiScores(replies[i])
                             ELSE EmptyValue ]
                 merged == V10getAIScores(feats[p], vals)
                 ranked == V10Scored(feats[p], merged)
             IN  /\ aiMap' = [ aiMap EXCEPT ![p] = merged ]
                 /\ scored' = [ scored EXCEPT ![p] = ranked ]
                 /\ top' = [ top EXCEPT ![p] = Take(ranked, V10_TRENDING_SIZE) ]
                 /\ obs' = [ op |-> "v10", replies |-> replies ]
    /\ pc' = [ pc EXCEPT ![p] = "send" ]
    /\ UNCHANGED << now, cycleNo, keys, runNo, candidates, newish, idx, sentAt,
                    feats, summary, thrown, stores, errorCount, alertLog, warnLog,
                    consensusLog >>

(* bot.sendMessage of the first chunk settles. *)
V10SendDone(p) ==
    /\ pc[p] = "send"
    /\ \/ /\ pc' = [ pc EXCEPT ![p] = "pin" ]
          /\ UNCHANGED << locals, thrown, obs >>
       \/ V10Return(p)
    /\ UNCHANGED << now, cycleNo, keys, runNo, stores, errorCount, alertLog,
                    warnLog, consensusLog >>

(* unpin and delete of the old message are absorbed; the pin settles;      *)
(* lastPinnedId and lastVolumes are set when it succeeds.                  *)
V10PinDone(p) ==
    /\ pc[p] = "pin"
    /\ \/ /\ lastPinnedId' = runNo[p]
          /\ lastVolumes' = SetVolumes(lastVolumes, candidates[p], 1)
       \/ UNCHANGED << lastPinnedId, lastVolumes >>
    /\ V10Return(p)
    /\ UNCHANGED << now, cycleNo, keys, runNo, history, riskCache,
                    alertedNewPools, errorCount, alertLog, warnLog, consensusLog >>

NextV10 ==
    \/ \E p \in Procs : V10TimerFire(p)
    \/ \E p \in Procs : V10FetchDone(p)
    \/ \E p \in Procs : V10OraclesSettled(p)
    \/ \E p \in Procs : V10SendDone(p)
    \/ \E p \in Procs : V10PinDone(p)
    \/ Tick

SpecV10 == InitV10 /\ [][NextV10]_vars

-----------------------------------------------------------------------------
(* Properties.                                                             *)

(* C1: over non-overlapping cycles no two new-pool alerts for one address  *)
(* are less than one cooldown window apart, and every emission leaves the  *)
(* address's last-alert timestamp at the time of that emission.            *)
C1_CooldownRespected ==
    /\ \A i \in 1..Len(alertLog) : \A j \in (i + 1)..Len(alertLog) :
          alertLog[i].address = alertLog[j].address
          => /\ alertLog[j].doneAt - alertLog[i].doneAt >= CooldownMs
             /\ alertLog[j].sentAt - alertLog[i].sentAt >= CooldownMs
    /\ \A i \in 1..Len(alertLog) :
          /\ alertLog[i].address \in DOMAIN alertedNewPools
          /\ (\A j \in (i + 1)..Len(alertLog) : alertLog[j].address # alertLog[i].address)
             => alertedNewPools[alertLog[i].address] = alertLog[i].doneAt

C1_Witness ==
    \E i \in 1..Len(alertLog) : \E j \in (i + 1)..Len(alertLog) :
        /\ alertLog[i].address = alertLog[j].address
        /\ alertedNewPools[alertLog[j].address] = alertLog[j].doneAt
        /\ alertLog[j].doneAt > alertLog[i].doneAt

(* C2: whatever the outcomes of the oracle requests (success, timeout,     *)
(* transport error, unparsable payload), getAIScores does not throw and    *)
(* its consensus map is the one computed from the successful oracles       *)
(* alone.                                                                  *)
RecsWellShaped(replies) ==
    \A i \in 1..Len(replies) : \A a \in DOMAIN replies[i].value.map :
        replies[i].value.map[a].tags.kind # "noniter"

SuccessfulValues(replies) ==
    LET ok(r) == r.kind = "json"
        good == SelectSeq(replies, ok)
    IN  [ i \in 1..Len(good) |-> good[i].value ]

C3_MalformedNeverAborts ==
    \A p \in Procs : thrown[p] # "TypeError"

(* The oracles whose successful reply holds a numeric score for address a. *)
ScoreSet(replies, a) ==
    { i \in 1..Len(replies) :
        /\ replies[i].kind = "json"
        /\ replies[i].value.shape = "map"
        /\ a \in DOMAIN replies[i].value.map
        /\ replies[i].value.map[a].score.num }

ScoreAt(replies, a, i) == replies[i].value.map[a].score.v

RECURSIVE SetSum(_, _, _)
SetSum(replies, a, is) ==
    IF is = {} THEN 0
    ELSE LET i == CHOOSE x \in is : TRUE
         IN  ScoreAt(replies, a, i) + SetSum(replies, a, is \ {i})

(* C4: an address for which no successful oracle returned a numeric score  *)
(* is absent from the consensus map, and its final score is its base       *)
(* score alone.                                                            *)
C4_UnscoredAbsent ==
    \A p \in Procs :
        (obs.op = "v10" /\ pc[p] \in { "send", "pin" })
        => \A i \in 1..Len(scored[p]) :
              ScoreSet(obs.replies, scored[p][i].feat.address) = {}
              => /\ scored[p][i].feat.address \notin DOMAIN aiMap[p]
                 /\ scored[p][i].final = scored[p][i].feat.vol24_now * ScoreScale

(* C5: an address scored by k >= 1 oracles gets score = the mean of the    *)
(* scores clamped into [0, 100], confidence = 100 - (max - min) and        *)
(* disagreement exactly when max - min exceeds the threshold.              *)
C5_ConsensusNumbers ==
    obs.op = "agg"
    => \A n \in 1..Len(obs.items) :
          LET a == obs.items[n].address
              is == ScoreSet(obs.replies, a)
              k == Cardinality(is)
              sum == SetSum(obs.replies, a, is)
              hi == CHOOSE x \in { ScoreAt(obs.replies, a, i) : i \in is } :
                       \A i \in is : ScoreAt(obs.replies, a, i) <= x
              lo == CHOOSE x \in { ScoreAt(obs.replies, a, i) : i \in is } :
                       \A i \in is : ScoreAt(obs.replies, a, i) >= x
          IN  /\ (k >= 1 /\ obs.err = "") => a \in DOMAIN obs.merged
              /\ (k >= 1 /\ a \in DOMAIN obs.merged)
                 => /\ obs.merged[a].score =
                          (IF sum < 0 THEN 0
                           ELSE IF sum > 100 * k THEN 100 * ScoreScale
                           ELSE (sum * ScoreScale) \div k)
                    /\ (sum >= 0 /\ sum <= 100 * k)
                       => obs.merged[a].score * k = sum * ScoreScale
                    /\ obs.merged[a].confidence = 100 - (hi - lo)
                    /\ obs.merged[a].disagree = ((hi - lo) > DisagreeSpread)

C5_Witness ==
    /\ obs.op = "agg"
    /\ obs.err = ""
    /\ { ScoreAt(obs.replies, "a1", i) : i \in ScoreSet(obs.replies, "a1") } = { 60, 70, 95 }
    /\ obs.merged["a1"].score = 75 * ScoreScale
    /\ obs.merged["a1"].confidence = 65
    /\ obs.merged["a1"].disagree

(* C6: the features of a cycle are built from the Risk Cache before that   *)
(* cycle's aggregation writes it: the risk_level of an address is the      *)
(* consensus risk of the last earlier cycle that scored it when that is    *)
(* less than one hour old ("med" otherwise), and the ranking uses the      *)
(* features as built.                                                      *)
LaggedRisk(a) ==
    IF a \in DOMAIN consensusLog /\ now - consensusLog[a].at < RiskTtlMs
    THEN consensusLog[a].risk ELSE "med"

C6_RiskLag ==
    [][ \A p \in Procs :
          /\ (feats'[p] # feats[p] /\ feats'[p] # << >>)
             => \A i \in 1..Len(feats'[p]) :
                   feats'[p][i].risk_level = LaggedRisk(feats'[p][i].address)
          /\ (scored'[p] # scored[p] /\ scored'[p] # << >>)
             => /\ feats'[p] = feats[p]
                /\ \A i \in 1..Len(scored'[p]) :
                      /\ scored'[p][i].feat \in Range(feats[p])
                      /\ scored'[p][i].feat.risk_level
                            = LaggedRisk(scored'[p][i].feat.address)
                      /\ scored'[p][i].final
                            = FinalScore(scored'[p][i].feat, aiMap'[p]) ]_vars

C6_Witness ==
    \E p \in Procs : \E i \in 1..Len(feats[p]) :
        /\ pc[p] \in { "summary", "send" }
        /\ runNo[p] = 2
        /\ feats[p][i].address \in DOMAIN aiMap[p]
        /\ feats[p][i].risk_level = "high"
        /\ aiMap[p][feats[p][i].address].risk = "low"
        /\ consensusLog[feats[p][i].address].run = 2

(* C7: a history series never exceeds HISTORY_MAX_POINTS and holds the     *)
(* most recently recorded points in insertion order; after more than the   *)
(* maximum of records its length is the maximum.                           *)
LastN(s, n) == SubSeq(s, Len(s) - n + 1, Len(s))

C7_HistoryFifo ==
    obs.op = "history"
    => \A a \in Addrs :
          /\ Len(history[a]) <= HISTORY_MAX_POINTS
          /\ history[a] = LastN(obs.recorded[a],
                                Min2(Len(obs.recorded[a]), HISTORY_MAX_POINTS))
          /\ Len(obs.recorded[a]) > HISTORY_MAX_POINTS
             => Len(history[a]) = HISTORY_MAX_POINTS

C7_Witness ==
    /\ obs.op = "history"
    /\ \E a \in Addrs :
          /\ Len(obs.recorded[a]) > HISTORY_MAX_POINTS
          /\ obs.recorded[a][1].v # obs.recorded[a][Len(obs.recorded[a])].v
          /\ Len(history[a]) = HISTORY_MAX_POINTS

(* C8: after every updateRiskCache the cache holds at most the maximum of  *)
(* entries; a write that takes it above the maximum leaves exactly the     *)
(* retained count, and no evicted entry is newer than a retained one.      *)
C8_BoundedEviction ==
    [][ (obs'.op = "write" /\ obs'.writes = obs.writes + 1)
        => LET put == { e \in Range(riskCache) : e.k # obs'.k }
                      \cup { [ k |-> obs'.k, risk |-> obs'.risk, updated |-> now ] }
               kept == Range(riskCache')
           IN  /\ Len(riskCache') <= RiskCacheMax
               /\ Cardinality(kept) = Len(riskCache')
               /\ kept \subseteq put
               /\ Cardinality(put) <= RiskCacheMax => kept = put
               /\ Cardinality(put) > RiskCacheMax
                  => /\ Len(riskCache') = RiskCacheKeep
                     /\ \A e \in put \ kept : \A r \in kept : e.updated <= r.updated
      ]_vars

C8_Witness ==
    /\ obs.op = "write"
    /\ obs.evicted
    /\ Len(riskCache) = RiskCacheKeep
    /\ \E i, j \in 1..Len(riskCache) : riskCache[i].updated # riskCache[j].updated

(* C9: getCachedRisk returns the stored label exactly when the entry       *)
(* exists and is less than one hour old, the no-value result otherwise,    *)
(* and leaves the cache as it was.                                         *)
C9_FreshRead ==
    [][ (obs'.op = "read" /\ obs' # obs)
        => /\ riskCache' = riskCache
           /\ obs'.result =
                (IF \E i \in 1..Len(riskCache) :
                        /\ riskCache[i].k = obs'.k
                        /\ now - riskCache[i].updated < RiskTtlMs
                 THEN riskCache[CHOOSE i \in 1..Len(riskCache) :
                                   riskCache[i].k = obs'.k].risk
                 ELSE NoRisk) ]_vars

C9_Witness ==
    /\ obs.op = "read"
    /\ obs.result = NoRisk
    /\ \E i \in 1..Len(riskCache) :
          /\ riskCache[i].k = obs.k
          /\ now - riskCache[i].updated = RiskTtlMs

(* C10: of two qualifying events for one address, the second produces an   *)
(* alert exactly when it is checked at least one cooldown window after the *)
(* first alert (including exactly one window after it).                    *)
LoopMoved(p) == idx'[p] > idx[p] /\ pc[p] \in { "fetch", "alert" }
ElapsedAfter(p, k) == now - MapGet(alertedNewPools', newish'[p][k].address, 0)

C10_AtLeastWindow ==
    [][ \A p \in Procs : LoopMoved(p)
          => /\ \A k \in (idx[p] + 1)..(idx'[p] - 1) : ElapsedAfter(p, k) < CooldownMs
             /\ pc'[p] = "alert" => ElapsedAfter(p, idx'[p]) >= CooldownMs ]_vars

(* C10, amended: the second event produces an alert exactly when it is     *)
(* checked strictly more than one cooldown window after the first alert;   *)
(* at exactly one window it is suppressed.                                 *)
C10_MoreThanWindow ==
    [][ \A p \in Procs : LoopMoved(p)
          => /\ \A k \in (idx[p] + 1)..(idx'[p] - 1) : ElapsedAfter(p, k) <= CooldownMs
             /\ pc'[p] = "alert" => ElapsedAfter(p, idx'[p]) > CooldownMs ]_vars

C10_Witness ==
    \E p \in Procs : \E k \in 1..Len(newish[p]) :
        /\ pc[p] = "oracles"
        /\ newish[p][k].address \in DOMAIN alertedNewPools
        /\ now - alertedNewPools[newish[p][k].address] = CooldownMs
        /\ \A i \in 1..Len(alertLog) :
              alertLog[i].address = newish[p][k].address => alertLog[i].doneAt # now

(* C12: an alert is sent, and a last-alert time recorded, only for a pool  *)
(* that passes every conjunct of the new-pool predicate at the time of the *)
(* cycle: age <= NEW_POOL_MAX_MIN, liquidity, 24h volume and 24h buyers at *)
(* or above their minimums.                                                *)
PassesNewPool(x, t) ==
    /\ t - x.pool_created_at <= NEW_POOL_MAX_MIN * MsPerMin
    /\ x.reserve_in_usd >= NEW_POOL_MIN_LIQ_USD
    /\ x.vol >= NEW_POOL_MIN_VOL24_USD
    /\ x.buyers >= NEW_POOL_MIN_BUYERS

C12_OnlyQualifiedAlerted ==
    [][ \A p \in Procs :
          /\ pc'[p] = "alert" => PassesNewPool(newish'[p][idx'[p]], now)
          /\ (pc[p] = "alert" /\ Len(alertLog') > Len(alertLog))
             => /\ PassesNewPool(newish[p][idx[p]], now)
                /\ alertLog'[Len(alertLog')].address = newish[p][idx[p]].address
                /\ \E i \in 1..Len(candidates[p]) :
                      /\ candidates[p][i].address = alertLog'[Len(alertLog')].address
                      /\ PassesNewPool(candidates[p][i], now) ]_vars

C12_Witness ==
    \E p \in Procs :
        /\ pc[p] = "oracles"
        /\ Len(alertLog) > 0
        /\ alertLog[Len(alertLog)].doneAt = now
        /\ \E i \in 1..Len(candidates[p]) :
              /\ ~PassesNewPool(candidates[p][i], now)
              /\ candidates[p][i].address # alertLog[Len(alertLog)].address
              /\ candidates[p][i].address \notin DOMAIN alertedNewPools

(* C11: once checkNewPools is over, every pool of the cycle's listing that *)
(* passes the new-pool predicate is either within the cooldown of an       *)
(* earlier alert or has been alerted in this cycle, exactly once.          *)
PastAlerts(p) == pc[p] \in { "oracles", "summary", "send", "pin" }

C11_EveryQualifiedAlerted ==
    \A p \in Procs :
        (obs.op = "fetch" /\ PastAlerts(p))
        => \A i \in 1..Len(obs.raw) :
              PassesNewPool(obs.raw[i], now)
              => /\ obs.raw[i].address \in DOMAIN alertedNewPools
                 /\ now - alertedNewPools[obs.raw[i].address] <= CooldownMs
                 /\ Cardinality({ k \in 1..Len(alertLog) :
                                    /\ alertLog[k].address = obs.raw[i].address
                                    /\ alertLog[k].doneAt = now }) <= 1

(* C13: when every page request of the cycle fails, safeFetch makes its    *)
(* full count of attempts and the cycle goes to its catch block with no    *)
(* alerting and no ranking.                                                *)
AllPagesFailed == \A i \in 1..Len(obs.pages) : ~obs.pages[i].ok

C13_FetchFailureAborts ==
    \A p \in Procs :
        (obs.op = "fetch" /\ pc[p] \notin { "idle", "fetch" } /\ AllPagesFailed)
        => /\ obs.attempts = SafeFetchRetries
           /\ obs.threw
           /\ pc[p] = "warn"
           /\ thrown[p] = "fetch"

(* C14: the k-th failure of an unbroken run of failed cycles surfaces the  *)
(* soft warning while k is below the threshold and the critical warning    *)
(* once k reaches it.  Every failed cycle leaves one entry in warnLog, so  *)
(* k is the number of entries with consecutive cycle numbers ending at it. *)
FailureRun(i) ==
    CHOOSE k \in 1..i :
        /\ \A j \in 0..(k - 1) : warnLog[i - j].run = warnLog[i].run - j
        /\ k = i \/ warnLog[i - k].run # warnLog[i].run - k

C14_ConsecutiveFailuresEscalate ==
    \A i \in 1..Len(warnLog) :
        warnLog[i].level = IF FailureRun(i) < ErrorThreshold THEN "soft" ELSE "critical"

(* C15: a failure of the chat transport (the send of a new-pool alert, the *)
(* send of the trending message, the pin) never counts the cycle as        *)
(* failed: the failure counter is not incremented, no warning is sent and  *)
(* the rest of the cycle is not skipped.                                   *)
TransportErrors == { "send", "pin" }

C15_TransportFailureNotCounted ==
    [][ \A p \in Procs :
          (thrown[p] = "" /\ thrown'[p] \in TransportErrors)
          => /\ errorCount' = errorCount
             /\ warnLog' = warnLog
             /\ pc'[p] # "warn" ]_vars

(* C16: a cycle never terminates the process and postTrending never        *)
(* rejects: whatever step fails, the cycle goes through its catch block,   *)
(* whose warning send cannot fail the cycle, and returns; once it has      *)
(* returned the timer can start the next cycle.                            *)
CyclePcs == { "idle", "fetch", "alert", "oracles", "summary", "send", "pin", "warn" }

C16_CycleAbsorbsFailures ==
    /\ \A p \in Procs :
          /\ pc[p] \in CyclePcs
          /\ thrown[p] # "" => pc[p] = "warn"
          /\ pc[p] = "warn" => ENABLED WarnDone(p)
    /\ ((\A q \in Procs : pc[q] = "idle") /\ cycleNo < MaxCycles)
          => ENABLED TimerFire(1)

C16_Witness ==
    /\ runNo[1] = 2
    /\ pc[1] = "fetch"
    /\ \E i \in 1..Len(warnLog) : warnLog[i].run = 1

(* The oracles whose successful reply holds a risk label for address a,    *)
(* and the number of them that reported the label l.                       *)
RiskSet(replies, a) ==
    { i \in 1..Len(replies) :
        /\ replies[i].kind = "json"
        /\ replies[i].value.shape = "map"
        /\ a \in DOMAIN replies[i].value.map
        /\ replies[i].value.map[a].risk # "" }

RiskAt(replies, a, i) == replies[i].value.map[a].risk

RiskVotes(replies, a, l) ==
    Cardinality({ i \in RiskSet(replies, a) : RiskAt(replies, a, i) = l })

(* C17: the consensus risk of an address is the majority vote over the     *)
(* risk labels the oracles reported for it: a label reported by strictly   *)
(* more oracles than every other label is the consensus risk, and when no  *)
(* oracle reported a risk the consensus risk is "med".                     *)
C17_RiskMajority ==
    obs.op = "agg"
    => \A a \in DOMAIN obs.merged :
          LET is == RiskSet(obs.replies, a)
              labels == { RiskAt(obs.replies, a, i) : i \in is }
          IN  /\ \A l \in labels :
                    (\A m \in labels \ {l} :
                        RiskVotes(obs.replies, a, m) < RiskVotes(obs.replies, a, l))
                    => obs.merged[a].risk = l
              /\ is = {} => obs.merged[a].risk = "med"

C17_Witness ==
    /\ obs.op = "agg"
    /\ "a1" \in DOMAIN obs.merged
    /\ RiskSet(obs.replies, "a1") = { 1, 2, 3 }
    /\ RiskAt(obs.replies, "a1", 1) = "low"
    /\ RiskAt(obs.replies, "a1", 2) = "high"
    /\ RiskAt(obs.replies, "a1", 3) = "high"
    /\ obs.merged["a1"].risk = "high"

(* The tag list oracle i reported for address a (none: the empty list),    *)
(* and the three lists one after the other in oracle order.                *)
TagsAt(replies, a, i) ==
    IF /\ replies[i].kind = "json"
       /\ replies[i].value.shape = "map"
       /\ a \in DOMAIN replies[i].value.map
    THEN replies[i].value.map[a].tags.items
    ELSE << >>

TagsInOrder(replies, a) ==
    TagsAt(replies, a, 1) \o TagsAt(replies, a, 2) \o TagsAt(replies, a, 3)

(* C18: the consensus tags of an address are the union of the oracles' tag *)
(* lists in oracle order, duplicates removed keeping the first occurrence, *)
(* truncated to at most 5 entries: the k-th consensus tag is the k-th tag  *)
(* of the concatenation that does not occur before itself.                 *)
C18_TagsUnionCapped ==
    obs.op = "agg"
    => \A a \in DOMAIN obs.merged :
          LET all == TagsInOrder(obs.replies, a)
              firsts == { i \in 1..Len(all) : \A j \in 1..(i - 1) : all[j] # all[i] }
              n == IF Cardinality(firsts) < 5 THEN Cardinality(firsts) ELSE 5
              kth(k) == CHOOSE i \in firsts :
                            Cardinality({ j \in firsts : j <= i }) = k
          IN  /\ Len(obs.merged[a].tags) = n
              /\ \A k \in 1..n : obs.merged[a].tags[k] = all[kth(k)]

C18_Witness ==
    /\ obs.op = "agg"
    /\ "a1" \in DOMAIN obs.merged
    /\ TagsInOrder(obs.replies, "a1")
          = << "gem", "pump", "new", "hot", "gem", "rug", "pump", "dip" >>
    /\ obs.merged["a1"].tags = << "gem", "pump", "new", "hot", "rug" >>

(* Consensus scores (in sixths) an address could have had instead. *)
OtherScores == { 0, 50 * ScoreScale, 100 * ScoreScale, 425 }

(* C19: the final score of every ranked entry is baseHotness(feature) +    *)
(* consensusScore * aiWeight, consensusScore being 0 for an address absent *)
(* from the consensus map; and had the same feature vector come with a     *)
(* consensus score differing by d, its final score would differ by exactly *)
(* d * aiWeight.  Scores are in sixths, hotness in thousandths.            *)
C19_FinalScoreFormula ==
    \A p \in Procs : \A i \in 1..Len(scored[p]) :
        LET e == scored[p][i]
            a == e.feat.address
            s == IF a \in DOMAIN aiMap[p] THEN aiMap[p][a].score ELSE 0
        IN  /\ e.final = baseHotness(e.feat) * ScoreScale + s * AI_WEIGHT * HotScale
            /\ \A s2 \in OtherScores :
                  FinalScore(e.feat, [ x \in {a} |-> [ score |-> s2 ] ]) - e.final
                     = (s2 - s) * AI_WEIGHT * HotScale

C19_Witness ==
    \E p \in Procs : \E i, j \in 1..Len(scored[p]) :
        /\ scored[p][i].feat.address \in DOMAIN aiMap[p]
        /\ aiMap[p][scored[p][i].feat.address].score > 0
        /\ scored[p][j].feat.address \notin DOMAIN aiMap[p]
        /\ scored[p][j].final = baseHotness(scored[p][j].feat) * ScoreScale

(* C20: the ranked output is the candidates sorted in non-increasing order *)
(* of final score and cut to the first K = TRENDING_SIZE: the sorted list  *)
(* holds every candidate entry as often as the input does, the output is   *)
(* its first min(K, number of candidates) entries, and no entry left out   *)
(* has a final score strictly greater than an entry included.              *)
C20_TopKByFinal ==
    obs.op = "rank"
    => LET es == obs.entries
           sc == scored[1]
           tp == top[1]
           n == Len(es)
           k == IF TRENDING_SIZE < n THEN TRENDING_SIZE ELSE n
       IN  /\ Len(sc) = n
           /\ \A i \in 1..n : Count(sc, es[i]) = Count(es, es[i])
           /\ \A i \in 1..(n - 1) : sc[i].final >= sc[i + 1].final
           /\ Len(tp) = k
           /\ \A i \in 1..k : tp[i] = sc[i]
           /\ \A i \in 1..k : \A j \in (k + 1)..n : sc[j].final <= tp[i].final

C20_Witness ==
    /\ obs.op = "rank"
    /\ Len(obs.entries) = 3
    /\ Len(top[1]) = 2
    /\ obs.entries[1].final < obs.entries[2].final
    /\ obs.entries[2].final < obs.entries[3].final
    /\ top[1] = << obs.entries[3], obs.entries[2] >>

(* The threshold conditions of the ranker, read off the series itself:     *)
(* the fractional change over the series exceeds 0.1 (a change from 0 to a *)
(* positive value is unbounded), and the standard deviation exceeds half   *)
(* the average.                                                            *)
SeriesTrendsUp(vs) ==
    /\ Len(vs) > 1
    /\ IF vs[1] > 0 THEN 10 * (vs[Len(vs)] - vs[1]) > vs[1]
       ELSE vs[Len(vs)] > vs[1]

SeriesVolatile(vs) ==
    LET n == Len(vs)
        total == SeqSum(vs)
        sq == SeqSum([ i \in 1..n |-> vs[i] * vs[i] ])
    IN  n > 1 /\ total > 0 /\ 4 * (n * sq - total * total) > total * total

(* C21: baseHotness is (volume + burstBoost + buyerBoost + recencyBonus +  *)
(* trendBoost - volaPenalty - sellPenalty) times the risk adjustment; each *)
(* boost or penalty is zero unless its threshold condition holds, and the  *)
(* adjustment amplifies for "low", dampens for "high" and is 1 otherwise.  *)
(* Hotness is in thousandths.                                              *)
C21_HotnessFormula ==
    obs.op = "feat"
    => LET f == obs.feat
           vol == f.vol24_now
           burstBoost == IF f.vol24_delta_5m > 0 THEN 3 * f.vol24_delta_5m ELSE 0
           buyerBoost == 100 * f.buyers24
           recencyBonus == IF f.age_min < 60 THEN 1000
                           ELSE IF f.age_min < 360 THEN 500 ELSE 0
           trendBoost == IF SeriesTrendsUp(obs.series) THEN 200 * vol ELSE 0
           volaPenalty == IF SeriesVolatile(obs.series) THEN 150 * vol ELSE 0
           sellPenalty == IF 10 * (f.buys24 + 1) < 3 * (f.sells24 + 1)
                          THEN 300 * vol ELSE 0
           sum == 1000 * (vol + burstBoost + buyerBoost + recencyBonus)
                  + trendBoost - volaPenalty - sellPenalty
       IN  /\ f.risk_level = "low" => 10 * obs.hot = 12 * sum
           /\ f.risk_level = "high" => 10 * obs.hot = 7 * sum
           /\ f.risk_level \notin { "low", "high" } => obs.hot = sum

(* Scenario A: volume 10,000, prior volume 8,000, 5 buyers, risk low,      *)
(* consensus score 80, aiWeight 2000, a pool half an hour old with no      *)
(* history: hotness 21,000 and final score 181,000.                        *)
C21_Witness ==
    /\ obs.op = "feat"
    /\ obs.pool.vol = 10000
    /\ obs.lv = [ a \in {"a1"} |-> 8000 ]
    /\ obs.pool.buyers = 5
    /\ obs.pool.sells = 0
    /\ obs.series = << >>
    /\ obs.feat.age_min = 30
    /\ obs.feat.risk_level = "low"
    /\ obs.hot = 21000 * HotScale
    /\ FinalScore(obs.feat, [ a \in {"a1"} |-> ConsensusOf(80 * ScoreScale) ])
          = 181000 * HotScale * ScoreScale

(* A statistic num / den is the number 0, or a finite number at all: with  *)
(* den = 0 the JavaScript division gives +-Infinity or NaN.                *)
IsZero(num, den) == num = 0 /\ den # 0
IsFinite(num, den) == den # 0

C23_ZeroDefaults ==
    obs.op = "feat"
    => LET vs == obs.series
           hs == obs.stats
           first == IF Len(vs) > 12 THEN Len(vs) - 11 ELSE 1
       IN  /\ (Len(vs) < 2 \/ vs[first] = 0) => IsZero(hs.trend_num, hs.trend_den)
           /\ (Len(vs) = 0 \/ SeqSum(vs) = 0) => IsZero(hs.vola_sq_num, hs.vola_sq_den)
           /\ IsFinite(hs.trend_num, hs.trend_den)
           /\ IsFinite(hs.vola_sq_num, hs.vola_sq_den)

(* C24: buildFeatures yields its defaults and stays finite on the          *)
(* division-by-zero inputs: delta is 0 when the address has no prior       *)
(* volume, rate is 0 when the prior volume is 0, vol_vs_avg_pct is 0 when  *)
(* the history average is 0, risk_level is "med" when the Risk Cache has   *)
(* no fresh value; with a prior volume, delta = volume - prior, and with a *)
(* prior volume other than 0, rate = delta / prior.                        *)
C24_FeatureDefaults ==
    obs.op = "feat"
    => LET f == obs.feat
           a == obs.pool.address
           seen == a \in DOMAIN obs.lv
           fresh == obs.rc # << >> /\ now - obs.rc[1].updated < RiskTtlMs
       IN  /\ ~seen => f.vol24_delta_5m = 0
           /\ (seen /\ obs.lv[a] = 0) => IsZero(f.rate_num, f.rate_den)
           /\ SeqSum(obs.series) = 0 => IsZero(f.vol_vs_avg_num, f.vol_vs_avg_den)
           /\ ~fresh => f.risk_level = "med"
           /\ fresh => f.risk_level = obs.rc[1].risk
           /\ IsFinite(f.rate_num, f.rate_den)
           /\ IsFinite(f.vol_vs_avg_num, f.vol_vs_avg_den)
           /\ seen => f.vol24_delta_5m = obs.pool.vol - obs.lv[a]
           /\ (seen /\ obs.lv[a] # 0)
              => f.rate_num * obs.lv[a] = f.vol24_delta_5m * f.rate_den

(* An oracle answers successfully when its request returns a text. *)
Answered(o) == obs.answers[o].kind = "text" /\ obs.answers[o].raw # << >>

(* C25: in summary mode getMarketSummary returns the trimmed text of a     *)
(* configured oracle that answers successfully whenever there is one, and  *)
(* the empty string exactly when no oracle is configured or none of the    *)
(* configured oracles succeeds.                                            *)
C25_SummaryFromConfigured ==
    obs.op = "summary"
    => LET ok == { o \in keys : Answered(o) }
       IN  /\ ok # {} => obs.result \in { Trim(obs.answers[o].raw) : o \in ok }
           /\ ok = {} => obs.result = << >>

(* No address occurs twice in a list of pools, features or ranked entries. *)
DistinctAddresses(addrs) ==
    \A i, j \in 1..Len(addrs) : i # j => addrs[i] # addrs[j]

(* C26: the cycle works on the deduplicated union of the fetched pages:    *)
(* each address occurs at most once among the candidates and in the ranked *)
(* list, and gets at most one history point per cycle, even when the same  *)
(* pool is returned on more than one page.                                 *)
C26_PagesDeduplicated ==
    [][ \A p \in Procs :
          /\ DistinctAddresses([ i \in 1..Len(candidates'[p]) |-> candidates'[p][i].address ])
          /\ DistinctAddresses([ i \in 1..Len(scored'[p]) |-> scored'[p][i].feat.address ])
          /\ \A a \in Addrs : Len(history'[a]) <= Len(history[a]) + 1 ]_vars

RiskLabels == { "low", "med", "high" }

(* C27: every Risk Cache entry and the risk of every consensus record      *)
(* carries a label in {low, med, high}, whatever the oracles return in     *)
(* their risk field.                                                       *)
C27_RiskLabelsClosed ==
    /\ \A i \in 1..Len(riskCache) : riskCache[i].risk \in RiskLabels
    /\ obs.op = "agg" => \A a \in DOMAIN obs.merged : obs.merged[a].risk \in RiskLabels

(* C28: when the timer fires while an earlier cycle is still suspended on  *)
(* an outbound call, the interleaved cycles still never emit two new-pool  *)
(* alerts for one address less than a cooldown window apart.               *)
C28_NoDoubleAlertOnOverlap ==
    \A i \in 1..Len(alertLog) : \A j \in (i + 1)..Len(alertLog) :
        alertLog[i].address = alertLog[j].address
        => alertLog[j].sentAt - alertLog[i].sentAt >= CooldownMs

(* C29: safeFetch(fn, retries) invokes fn at most `retries` times, returns *)
(* the result of the first invocation that succeeds without invoking fn    *)
(* again, waits after each failed attempt a delay that strictly increases  *)
(* with the attempt number, and throws when all `retries` invocations      *)
(* fail.                                                                   *)
C29_BoundedRetry ==
    obs.op = "retry"
    => LET r == obs.result
           n == obs.retries
           oks == { i \in 1..n : ~obs.calls[i].rejected }
           failed == IF r.threw THEN r.attempts ELSE r.attempts - 1
       IN  /\ r.attempts <= n
           /\ oks # {}
              => /\ ~r.threw
                 /\ \A i \in oks : r.attempts <= i
                 /\ r.attempts \in oks
                 /\ r.value = obs.calls[r.attempts].value
           /\ oks = {} => r.threw /\ r.attempts = n
           /\ Len(r.waits) = failed
           /\ \A k \in 1..Len(r.waits) : r.waits[k] > 0
           /\ \A k \in 1..(Len(r.waits) - 1) : r.waits[k] < r.waits[k + 1]

C29_Witness ==
    /\ obs.op = "retry"
    /\ obs.retries = 4
    /\ obs.calls[1].rejected
    /\ obs.calls[2].rejected
    /\ ~obs.calls[3].rejected
    /\ obs.calls[4].rejected
    /\ obs.result.attempts = 3
    /\ obs.result.value = obs.calls[3].value
    /\ obs.result.waits = << 3000, 6000 >>

(* C30: immediately after updateRiskCache(address, r), getCachedRisk of    *)
(* that address returns r, for every prior cache state, including when the *)
(* write triggers the overflow eviction and other entries carry the same   *)
(* timestamp as the new one.                                               *)
C30_WriteThenRead ==
    obs.op = "write" => getCachedRisk(riskCache, obs.k, now) = obs.risk

(* C31: the last-alert timestamp of an address is written only after the   *)
(* alert for it was sent successfully; when the send fails the cooldown    *)
(* map is left as it was, so the pool is still uncooled.                   *)
C31_TimestampOnlyAfterSend ==
    [][ /\ \A a \in Addrs :
              MapGet(alertedNewPools', a, 0) # MapGet(alertedNewPools, a, 0)
              => /\ Len(alertLog') = Len(alertLog) + 1
                 /\ alertLog'[Len(alertLog')].address = a
                 /\ alertedNewPools'[a] = now
        /\ \A p \in Procs :
              (pc[p] = "alert" /\ thrown'[p] = "send")
              => /\ alertedNewPools' = alertedNewPools
                 /\ now - MapGet(alertedNewPools', newish[p][idx[p]].address, 0)
                       > NEW_ALERT_COOLDOWN_MIN * MsPerMin ]_vars

C31_Witness ==
    \E p \in Procs :
        /\ pc[p] = "warn"
        /\ thrown[p] = "send"
        /\ idx[p] \in 1..Len(newish[p])
        /\ newish[p][idx[p]].address \notin DOMAIN alertedNewPools
        /\ alertLog = << >>

(* The volumes the candidates of a cycle list for address a. *)
CandidateVols(cands, a) == { cands[i].vol : i \in { j \in 1..Len(cands) : cands[j].address = a } }

(* C32: the prior-volume map is written only as the last step of a fully   *)
(* successful cycle, for every candidate of that cycle; a step in which a  *)
(* cycle fails leaves it unchanged; and the delta of the features is       *)
(* measured against the map as the last successful cycle left it.          *)
C32_PriorVolumesOnSuccess ==
    [][ /\ lastVolumes' # lastVolumes
           => \E p \in Procs :
                 /\ pc[p] = "pin" /\ pc'[p] = "idle"
                 /\ warnLog' = warnLog
                 /\ \A a \in Addrs :
                       IF CandidateVols(candidates[p], a) # {}
                       THEN /\ a \in DOMAIN lastVolumes'
                            /\ lastVolumes'[a] \in CandidateVols(candidates[p], a)
                       ELSE /\ a \in DOMAIN lastVolumes' <=> a \in DOMAIN lastVolumes
                            /\ a \in DOMAIN lastVolumes => lastVolumes'[a] = lastVolumes[a]
        /\ \A p \in Procs :
              (pc[p] = "pin" /\ pc'[p] = "idle")
              => \A i \in 1..Len(candidates[p]) :
                    candidates[p][i].address \in DOMAIN lastVolumes'
        /\ \A p \in Procs :
              (thrown[p] = "" /\ thrown'[p] # "") => lastVolumes' = lastVolumes
        /\ \A p \in Procs :
              feats'[p] # feats[p]
              => \A i \in 1..Len(feats'[p]) :
                    LET f == feats'[p][i]
                    IN  f.vol24_delta_5m =
                           f.vol24_now - MapGet(lastVolumes, f.address, f.vol24_now) ]_vars

(* The first cycle failed after recording a history point of volume 1000   *)
(* for a1; the second cycle sees a1 at 500 and measures no delta, the map  *)
(* being still empty.                                                      *)
C32_Witness ==
    /\ runNo[1] = 2
    /\ \E i \in 1..Len(warnLog) : warnLog[i].run = 1
    /\ lastVolumes = NoMap
    /\ Len(history["a1"]) >= 1
    /\ history["a1"][1].v = 1000
    /\ \E i \in 1..Len(feats[1]) :
          /\ feats[1][i].address = "a1"
          /\ feats[1][i].vol24_now = 500
          /\ feats[1][i].vol24_delta_5m = 0

====
